---- MODULE Spec2Model ----
(***************************************************************************)
(* Model of the text core of katelkum/translater (src/pdf_utils.py):       *)
(*   - chunk_text: paragraph-aligned, size-bounded segmentation;           *)
(*   - fix_arabic_ocr_errors: the ordered OCR repair rule categories.      *)
(* A text is a sequence of Unicode code points (naturals).                 *)
(***************************************************************************)
EXTENDS Integers, Sequences, FiniteSets, TLC

(***************************************************************************)
(* Bounds of the model.                                                    *)
(***************************************************************************)
\* longest text handed to chunk_text in SpecChunk
MaxTextLen == 8
\* largest max_chunk_size tried in SpecChunk (the smallest is -1)
MaxChunk == 4
\* longest text over FixAlphabet handed to fix_arabic_ocr_errors in SpecFix
MaxFixLen == 3

(***************************************************************************)
(* Code points.                                                            *)
(***************************************************************************)
NL == 10
SP == 32

\* str.strip() with no argument removes the characters str.isspace() accepts;
\* these are the ones below U+0100.
Whitespace == {9, 10, 11, 12, 13, 28, 29, 30, 31, 32, 133, 160}

IsSpace(c) == c \in Whitespace

\* the separator '\n\n' of text.split('\n\n') and of paragraph + "\n\n"
ParSep == <<NL, NL>>

(***************************************************************************)
(* String helpers, computed as Python computes them.                       *)
(***************************************************************************)
RECURSIVE SplitFrom(_, _, _)
\* str.split(sep) for sep = '\n\n': leftmost, non-overlapping separators;
\* always returns at least one piece ("".split('\n\n') == [''])
SplitFrom(t, i, cur) ==
    IF i > Len(t) THEN <<cur>>
    ELSE IF i < Len(t) /\ t[i] = NL /\ t[i + 1] = NL
         THEN <<cur>> \o SplitFrom(t, i + 2, <<>>)
         ELSE SplitFrom(t, i + 1, Append(cur, t[i]))

SplitParagraphs(t) == SplitFrom(t, 1, <<>>)

RECURSIVE LStrip(_)
LStrip(s) == IF s # <<>> /\ IsSpace(Head(s)) THEN LStrip(Tail(s)) ELSE s

RECURSIVE RStrip(_)
RStrip(s) ==
    IF s # <<>> /\ IsSpace(s[Len(s)]) THEN RStrip(SubSeq(s, 1, Len(s) - 1)) ELSE s

\* str.strip()
Strip(s) == RStrip(LStrip(s))

(***************************************************************************)
(* Pattern replacement: str.replace and re.sub, computed as Python does.   *)
(* A pattern is a sequence of alternatives tried in order; an alternative  *)
(* is a sequence of items, an item a character class with a repetition     *)
(* (exactly one, ?, * or +); repetition is greedy and backtracks.          *)
(***************************************************************************)
One(S) == [cls |-> S, min |-> 1, many |-> FALSE, keep |-> FALSE]
Opt(S) == [cls |-> S, min |-> 0, many |-> FALSE, keep |-> FALSE]
Star(S) == [cls |-> S, min |-> 0, many |-> TRUE, keep |-> FALSE]
Plus(S) == [cls |-> S, min |-> 1, many |-> TRUE, keep |-> FALSE]
\* a parenthesised class: what it matches is copied to the replacement (\1, \2)
Grp(S) == [cls |-> S, min |-> 1, many |-> FALSE, keep |-> TRUE]
\* a literal run of characters
Chars(s) == [i \in 1..Len(s) |-> One({s[i]})]

\* an alternative whose replacement is a fixed string
Fixed(items, out) == [items |-> items, fixed |-> TRUE, out |-> out]
\* an alternative whose replacement is its groups, in order
Groups(items) == [items |-> items, fixed |-> FALSE, out |-> <<>>]

NoMatch == <<0 - 1>>

RECURSIVE RunLen(_, _, _, _)
\* how many characters of t from pos on are in cls, at most limit
RunLen(t, pos, cls, limit) ==
    IF limit = 0 \/ pos > Len(t) \/ t[pos] \notin cls THEN 0
    ELSE 1 + RunLen(t, pos + 1, cls, limit - 1)

RECURSIVE MatchItems(_, _, _, _)
RECURSIVE TryCount(_, _, _, _, _)
\* the repetition counts of items k.. matched at pos, or NoMatch
MatchItems(items, k, t, pos) ==
    IF k > Len(items) THEN <<>>
    ELSE TryCount(items, k, t, pos,
                  RunLen(t, pos, items[k].cls, IF items[k].many THEN Len(t) ELSE 1))

\* greedy: the longest repetition first, then one less, down to the minimum
TryCount(items, k, t, pos, n) ==
    IF n < items[k].min THEN NoMatch
    ELSE LET rest == MatchItems(items, k + 1, t, pos + n) IN
         IF rest # NoMatch THEN <<n>> \o rest
         ELSE TryCount(items, k, t, pos, n - 1)

RECURSIVE SumSeq(_)
SumSeq(ns) == IF ns = <<>> THEN 0 ELSE Head(ns) + SumSeq(Tail(ns))

RECURSIVE KeptText(_, _, _, _, _)
\* the text matched by the groups of the alternative
KeptText(items, counts, t, pos, k) ==
    IF k > Len(items) THEN <<>>
    ELSE (IF items[k].keep THEN SubSeq(t, pos, pos + counts[k] - 1) ELSE <<>>)
         \o KeptText(items, counts, t, pos + counts[k], k + 1)

RECURSIVE FirstAlt(_, _, _, _)
\* the first alternative that matches at pos: [len, out], or len = 0 for none
\* (no pattern of the tables matches the empty string)
FirstAlt(alts, a, t, pos) ==
    IF a > Len(alts) THEN [len |-> 0, out |-> <<>>]
    ELSE LET counts == MatchItems(alts[a].items, 1, t, pos) IN
         IF counts # NoMatch /\ SumSeq(counts) > 0
         THEN [len |-> SumSeq(counts),
               out |-> IF alts[a].fixed THEN alts[a].out
                       ELSE KeptText(alts[a].items, counts, t, pos, 1)]
         ELSE FirstAlt(alts, a + 1, t, pos)

RECURSIVE SubFrom(_, _, _)
\* one left-to-right scan: leftmost matches, not overlapping, and what a
\* replacement produced is not scanned again
SubFrom(alts, t, pos) ==
    IF pos > Len(t) THEN <<>>
    ELSE LET m == FirstAlt(alts, 1, t, pos) IN
         IF m.len > 0 THEN m.out \o SubFrom(alts, t, pos + m.len)
         ELSE <<t[pos]>> \o SubFrom(alts, t, pos + 1)

\* re.sub(pattern, repl, t) and, for a literal pattern, t.replace(old, new)
Sub(alts, t) == SubFrom(alts, t, 1)

RECURSIVE ApplyRange(_, _, _, _)
RECURSIVE ApplyRest(_, _, _, _)
\* rules lo..hi applied in order, each to the text the rules before it produced
ApplyRange(rules, lo, hi, t) ==
    IF lo = hi THEN Sub(rules[lo], t)
    ELSE ApplyRest(rules, ((lo + hi) \div 2) + 1, hi,
                   ApplyRange(rules, lo, (lo + hi) \div 2, t))

\* (u, the text so far, is computed before the remaining rules are entered)
ApplyRest(rules, lo, hi, u) ==
    IF Len(u) >= 0 THEN ApplyRange(rules, lo, hi, u) ELSE u

\* for pattern, correct in table.items(): text = sub(pattern, correct, text)
ApplyRules(rules, t) == IF Len(rules) = 0 THEN t ELSE ApplyRange(rules, 1, Len(rules), t)

\* the rules of a table of literal pairs: text.replace(wrong, correct)
LiteralRules(table) ==
    [i \in 1..Len(table) |-> <<Fixed(Chars(table[i][1]), table[i][2])>>]

(***************************************************************************)
(* The rule tables of fix_arabic_ocr_errors (src/pdf_utils.py 205-459).    *)
(***************************************************************************)
\* arabic_ligatures (lines 208-316): 96 entries in the literal, 91 distinct keys,
\* in the dict's iteration order (a repeated key keeps its first position)
arabic_ligatures == <<
    <<<<65275>>, <<1604, 1575>>>>,  \* U+FEFB -> U+0644 U+0627
    <<<<65276>>, <<1604, 1575>>>>,  \* U+FEFC -> U+0644 U+0627
    <<<<65269>>, <<1604, 1570>>>>,  \* U+FEF5 -> U+0644 U+0622
    <<<<65270>>, <<1604, 1570>>>>,  \* U+FEF6 -> U+0644 U+0622
    <<<<65271>>, <<1604, 1571>>>>,  \* U+FEF7 -> U+0644 U+0623
    <<<<65272>>, <<1604, 1571>>>>,  \* U+FEF8 -> U+0644 U+0623
    <<<<65273>>, <<1604, 1573>>>>,  \* U+FEF9 -> U+0644 U+0625
    <<<<65274>>, <<1604, 1573>>>>,  \* U+FEFA -> U+0644 U+0625
    <<<<65184, 65252>>, <<1580, 1605>>>>,  \* U+FEA0 U+FEE4 -> U+062C U+0645
    <<<<65184, 65251>>, <<1580, 1605>>>>,  \* U+FEA0 U+FEE3 -> U+062C U+0645
    <<<<65188, 65252>>, <<1581, 1605>>>>,  \* U+FEA4 U+FEE4 -> U+062D U+0645
    <<<<65188, 65251>>, <<1581, 1605>>>>,  \* U+FEA4 U+FEE3 -> U+062D U+0645
    <<<<65251, 65188>>, <<1605, 1581>>>>,  \* U+FEE3 U+FEA4 -> U+0645 U+062D
    <<<<65252, 65188>>, <<1605, 1581>>>>,  \* U+FEE4 U+FEA4 -> U+0645 U+062D
    <<<<65228, 65248>>, <<1593, 1604>>>>,  \* U+FECC U+FEE0 -> U+0639 U+0644
    <<<<65227, 65248>>, <<1593, 1604>>>>,  \* U+FECB U+FEE0 -> U+0639 U+0644
    <<<<65252, 65228>>, <<1605, 1593>>>>,  \* U+FEE4 U+FECC -> U+0645 U+0639
    <<<<65251, 65228>>, <<1605, 1593>>>>,  \* U+FEE3 U+FECC -> U+0645 U+0639
    <<<<65169>>, <<1576>>>>,  \* U+FE91 -> U+0628
    <<<<65175>>, <<1578>>>>,  \* U+FE97 -> U+062A
    <<<<65179>>, <<1579>>>>,  \* U+FE9B -> U+062B
    <<<<65183>>, <<1580>>>>,  \* U+FE9F -> U+062C
    <<<<65187>>, <<1581>>>>,  \* U+FEA3 -> U+062D
    <<<<65191>>, <<1582>>>>,  \* U+FEA7 -> U+062E
    <<<<65203>>, <<1587>>>>,  \* U+FEB3 -> U+0633
    <<<<65207>>, <<1588>>>>,  \* U+FEB7 -> U+0634
    <<<<65211>>, <<1589>>>>,  \* U+FEBB -> U+0635
    <<<<65215>>, <<1590>>>>,  \* U+FEBF -> U+0636
    <<<<65219>>, <<1591>>>>,  \* U+FEC3 -> U+0637
    <<<<65223>>, <<1592>>>>,  \* U+FEC7 -> U+0638
    <<<<65227>>, <<1593>>>>,  \* U+FECB -> U+0639
    <<<<65231>>, <<1594>>>>,  \* U+FECF -> U+063A
    <<<<65235>>, <<1601>>>>,  \* U+FED3 -> U+0641
    <<<<65239>>, <<1602>>>>,  \* U+FED7 -> U+0642
    <<<<65243>>, <<1603>>>>,  \* U+FEDB -> U+0643
    <<<<65247>>, <<1604>>>>,  \* U+FEDF -> U+0644
    <<<<65251>>, <<1605>>>>,  \* U+FEE3 -> U+0645
    <<<<65255>>, <<1606>>>>,  \* U+FEE7 -> U+0646
    <<<<65259>>, <<1607>>>>,  \* U+FEEB -> U+0647
    <<<<65267>>, <<1610>>>>,  \* U+FEF3 -> U+064A
    <<<<65170>>, <<1576>>>>,  \* U+FE92 -> U+0628
    <<<<65176>>, <<1578>>>>,  \* U+FE98 -> U+062A
    <<<<65180>>, <<1579>>>>,  \* U+FE9C -> U+062B
    <<<<65184>>, <<1580>>>>,  \* U+FEA0 -> U+062C
    <<<<65188>>, <<1581>>>>,  \* U+FEA4 -> U+062D
    <<<<65192>>, <<1582>>>>,  \* U+FEA8 -> U+062E
    <<<<65204>>, <<1587>>>>,  \* U+FEB4 -> U+0633
    <<<<65208>>, <<1588>>>>,  \* U+FEB8 -> U+0634
    <<<<65212>>, <<1589>>>>,  \* U+FEBC -> U+0635
    <<<<65216>>, <<1590>>>>,  \* U+FEC0 -> U+0636
    <<<<65220>>, <<1591>>>>,  \* U+FEC4 -> U+0637
    <<<<65224>>, <<1592>>>>,  \* U+FEC8 -> U+0638
    <<<<65228>>, <<1593>>>>,  \* U+FECC -> U+0639
    <<<<65232>>, <<1594>>>>,  \* U+FED0 -> U+063A
    <<<<65236>>, <<1601>>>>,  \* U+FED4 -> U+0641
    <<<<65240>>, <<1602>>>>,  \* U+FED8 -> U+0642
    <<<<65244>>, <<1603>>>>,  \* U+FEDC -> U+0643
    <<<<65248>>, <<1604>>>>,  \* U+FEE0 -> U+0644
    <<<<65252>>, <<1605>>>>,  \* U+FEE4 -> U+0645
    <<<<65256>>, <<1606>>>>,  \* U+FEE8 -> U+0646
    <<<<65260>>, <<1607>>>>,  \* U+FEEC -> U+0647
    <<<<65268>>, <<1610>>>>,  \* U+FEF4 -> U+064A
    <<<<65168>>, <<1576>>>>,  \* U+FE90 -> U+0628
    <<<<65174>>, <<1578>>>>,  \* U+FE96 -> U+062A
    <<<<65178>>, <<1579>>>>,  \* U+FE9A -> U+062B
    <<<<65182>>, <<1580>>>>,  \* U+FE9E -> U+062C
    <<<<65186>>, <<1581>>>>,  \* U+FEA2 -> U+062D
    <<<<65190>>, <<1582>>>>,  \* U+FEA6 -> U+062E
    <<<<65202>>, <<1587>>>>,  \* U+FEB2 -> U+0633
    <<<<65206>>, <<1588>>>>,  \* U+FEB6 -> U+0634
    <<<<65210>>, <<1589>>>>,  \* U+FEBA -> U+0635
    <<<<65214>>, <<1590>>>>,  \* U+FEBE -> U+0636
    <<<<65218>>, <<1591>>>>,  \* U+FEC2 -> U+0637
    <<<<65222>>, <<1592>>>>,  \* U+FEC6 -> U+0638
    <<<<65226>>, <<1593>>>>,  \* U+FECA -> U+0639
    <<<<65230>>, <<1594>>>>,  \* U+FECE -> U+063A
    <<<<65234>>, <<1601>>>>,  \* U+FED2 -> U+0641
    <<<<65238>>, <<1602>>>>,  \* U+FED6 -> U+0642
    <<<<65242>>, <<1603>>>>,  \* U+FEDA -> U+0643
    <<<<65246>>, <<1604>>>>,  \* U+FEDE -> U+0644
    <<<<65250>>, <<1605>>>>,  \* U+FEE2 -> U+0645
    <<<<65254>>, <<1606>>>>,  \* U+FEE6 -> U+0646
    <<<<65258>>, <<1607>>>>,  \* U+FEEA -> U+0647
    <<<<65266>>, <<1610>>>>,  \* U+FEF2 -> U+064A
    <<<<65252, 65184>>, <<1605, 1580>>>>,  \* U+FEE4 U+FEA0 -> U+0645 U+062C
    <<<<65228, 65252>>, <<1593, 1605>>>>,  \* U+FECC U+FEE4 -> U+0639 U+0645
    <<<<65252, 65256>>, <<1605, 1606>>>>,  \* U+FEE4 U+FEE8 -> U+0645 U+0646
    <<<<65256, 65252>>, <<1606, 1605>>>>,  \* U+FEE8 U+FEE4 -> U+0646 U+0645
    <<<<65204, 65248>>, <<1587, 1604>>>>,  \* U+FEB4 U+FEE0 -> U+0633 U+0644
    <<<<65248, 65204>>, <<1604, 1587>>>>,  \* U+FEE0 U+FEB4 -> U+0644 U+0633
    <<<<65248, 65228>>, <<1604, 1593>>>>  \* U+FEE0 U+FECC -> U+0644 U+0639
>>

\* letter_fixes (lines 350-363): 12 entries in the literal, 12 distinct keys,
\* in the dict's iteration order (a repeated key keeps its first position)
letter_fixes == <<
    <<<<1726>>, <<1607>>>>,  \* U+06BE -> U+0647
    <<<<1746>>, <<1740>>>>,  \* U+06D2 -> U+06CC
    <<<<65171>>, <<1577>>>>,  \* U+FE93 -> U+0629
    <<<<65010>>, <<1575, 1604, 1604, 1607>>>>,  \* U+FDF2 -> U+0627 U+0644 U+0644 U+0647
    <<<<65018>>, <<1589, 1604, 1609, 32, 1575, 1604, 1604, 1607, 32, 1593, 1604, 1610, 1607, 32, 1608, 1587, 1604, 1605>>>>,  \* U+FDFA -> U+0635 U+0644 U+0649 U+0020 U+0627 U+0644 U+0644 U+0647 U+0020 U+0639 U+0644 U+064A U+0647 U+0020 U+0648 U+0633 U+0644 U+0645
    <<<<65019>>, <<1587, 1576, 1581, 1575, 1606, 1607, 32, 1608, 1578, 1593, 1575, 1604, 1609>>>>,  \* U+FDFB -> U+0633 U+0628 U+062D U+0627 U+0646 U+0647 U+0020 U+0648 U+062A U+0639 U+0627 U+0644 U+0649
    <<<<65012>>, <<1605, 1581, 1605, 1583>>>>,  \* U+FDF4 -> U+0645 U+062D U+0645 U+062F
    <<<<65011>>, <<1575, 1603, 1576, 1585>>>>,  \* U+FDF3 -> U+0627 U+0643 U+0628 U+0631
    <<<<64606>>, <<1611>>>>,  \* U+FC5E -> U+064B
    <<<<64607>>, <<1613>>>>,  \* U+FC5F -> U+064D
    <<<<64608>>, <<1617>>>>,  \* U+FC60 -> U+0651
    <<<<64609>>, <<1612>>>>  \* U+FC61 -> U+064C
>>

\* quranic_symbols (lines 375-402): 26 entries in the literal, 24 distinct keys,
\* in the dict's iteration order (a repeated key keeps its first position)
quranic_symbols == <<
    <<<<1757>>, <<1757>>>>,  \* U+06DD -> U+06DD
    <<<<1758>>, <<1758>>>>,  \* U+06DE -> U+06DE
    <<<<65021>>, <<65021>>>>,  \* U+FDFD -> U+FDFD
    <<<<64830>>, <<64830>>>>,  \* U+FD3E -> U+FD3E
    <<<<64831>>, <<64831>>>>,  \* U+FD3F -> U+FD3F
    <<<<1769>>, <<1769>>>>,  \* U+06E9 -> U+06E9
    <<<<1760>>, <<1760>>>>,  \* U+06E0 -> U+06E0
    <<<<1771>>, <<1771>>>>,  \* U+06EB -> U+06EB
    <<<<1770>>, <<1770>>>>,  \* U+06EA -> U+06EA
    <<<<1773>>, <<1773>>>>,  \* U+06ED -> U+06ED
    <<<<1772>>, <<1772>>>>,  \* U+06EC -> U+06EC
    <<<<1759>>, <<1759>>>>,  \* U+06DF -> U+06DF
    <<<<8224>>, <<8224>>>>,  \* U+2020 -> U+2020
    <<<<8225>>, <<8225>>>>,  \* U+2021 -> U+2021
    <<<<1776>>, <<1776>>>>,  \* U+06F0 -> U+06F0
    <<<<1777>>, <<1777>>>>,  \* U+06F1 -> U+06F1
    <<<<1778>>, <<1778>>>>,  \* U+06F2 -> U+06F2
    <<<<1779>>, <<1779>>>>,  \* U+06F3 -> U+06F3
    <<<<1780>>, <<1780>>>>,  \* U+06F4 -> U+06F4
    <<<<1781>>, <<1781>>>>,  \* U+06F5 -> U+06F5
    <<<<1782>>, <<1782>>>>,  \* U+06F6 -> U+06F6
    <<<<1783>>, <<1783>>>>,  \* U+06F7 -> U+06F7
    <<<<1784>>, <<1784>>>>,  \* U+06F8 -> U+06F8
    <<<<1785>>, <<1785>>>>  \* U+06F9 -> U+06F9
>>

\* arabic_numbers (lines 366-372): 13 entries in the literal, 13 distinct keys,
\* in the dict's iteration order (a repeated key keeps its first position)
arabic_numbers == <<
    <<<<1632>>, <<48>>>>,  \* U+0660 -> U+0030
    <<<<1633>>, <<49>>>>,  \* U+0661 -> U+0031
    <<<<1634>>, <<50>>>>,  \* U+0662 -> U+0032
    <<<<1635>>, <<51>>>>,  \* U+0663 -> U+0033
    <<<<1636>>, <<52>>>>,  \* U+0664 -> U+0034
    <<<<1637>>, <<53>>>>,  \* U+0665 -> U+0035
    <<<<1638>>, <<54>>>>,  \* U+0666 -> U+0036
    <<<<1639>>, <<55>>>>,  \* U+0667 -> U+0037
    <<<<1640>>, <<56>>>>,  \* U+0668 -> U+0038
    <<<<1641>>, <<57>>>>,  \* U+0669 -> U+0039
    <<<<1642>>, <<37>>>>,  \* U+066A -> U+0025
    <<<<1643>>, <<46>>>>,  \* U+066B -> U+002E
    <<<<1644>>, <<44>>>>  \* U+066C -> U+002C
>>

\* diacritics (lines 405-420): 14 entries in the literal, 14 distinct keys,
\* in the dict's iteration order (a repeated key keeps its first position)
\* (a table that drops the fatha instead of keeping it)
DiacriticsDroppingFatha == << <<<<1614>>, <<>>>> >>
diacritics == <<
    <<<<1648>>, <<1648>>>>,  \* U+0670 -> U+0670
    <<<<1622>>, <<1622>>>>,  \* U+0656 -> U+0656
    <<<<1623>>, <<1623>>>>,  \* U+0657 -> U+0657
    <<<<1628>>, <<1628>>>>,  \* U+065C -> U+065C
    <<<<1621>>, <<1621>>>>,  \* U+0655 -> U+0655
    <<<<1620>>, <<1620>>>>,  \* U+0654 -> U+0654
    <<<<1618>>, <<1618>>>>,  \* U+0652 -> U+0652
    <<<<1615>>, <<1615>>>>,  \* U+064F -> U+064F
    <<<<1616>>, <<1616>>>>,  \* U+0650 -> U+0650
    <<<<1614>>, <<1614>>>>,  \* U+064E -> U+064E
    <<<<1617>>, <<1617>>>>,  \* U+0651 -> U+0651
    <<<<1611>>, <<1611>>>>,  \* U+064B -> U+064B
    <<<<1613>>, <<1613>>>>,  \* U+064D -> U+064D
    <<<<1612>>, <<1612>>>>  \* U+064C -> U+064C
>>

\* the characters named in the patterns
Alef == 1575
Lam == 1604
LamInitial == 65247
Tatweel == 1600

\* [ﺪﺩدﺪﺩ]: U+FEAA U+FEA9 U+062F
DalForms == {65194, 65193, 1583}
\* [ىي] and [يى]: U+0649 U+064A
YaForms == {1609, 1610}
\* [اآ]: U+0627 U+0622
AlefForms == {Alef, 1570}
\* [وﻭ]: U+0648 U+FEED
WawForms == {1608, 65261}
\* \s of a str pattern: the characters str.isspace() accepts
RegexSpace == Whitespace

\* common_word_patterns (lines 319-326), in the dict's order
common_word_patterns == <<
    \* r'اﻟ+' : U+0627 U+FEDF+
    <<Fixed(<<One({Alef}), Plus({LamInitial})>>, <<Alef, Lam>>)>>,
    \* r'ﷲ' : U+FDF2
    <<Fixed(<<One({65010})>>, <<Alef, Lam, Lam, 1607>>)>>,
    \* r'ﻣﺤﻤ[ﺪﺩدﺪﺩ]' : U+FEE3 U+FEA4 U+FEE4 [..]
    <<Fixed(Chars(<<65251, 65188, 65252>>) \o <<One(DalForms)>>,
            <<1605, 1581, 1605, 1583>>)>>,
    \* r'ﻋﺒ[ﺪﺩدﺪﺩ]' : U+FECB U+FE92 [..]
    <<Fixed(Chars(<<65227, 65170>>) \o <<One(DalForms)>>, <<1593, 1576, 1583>>)>>,
    \* r'اﻟ?ﺮﺣﻤ[ﻦﻥن]' : U+0627 U+FEDF? U+FEAE U+FEA3 U+FEE4 [U+FEE6 U+FEE5 U+0646]
    <<Fixed(<<One({Alef}), Opt({LamInitial})>> \o Chars(<<65198, 65187, 65252>>)
                \o <<One({65254, 65253, 1606})>>,
            <<Alef, Lam, 1585, 1581, 1605, 1606>>)>>,
    \* r'اﻟ?ﺮﺣ[ﻴﻳيﯾ]?[ﻢﻣم]' : U+0627 U+FEDF? U+FEAE U+FEA3
    \*                        [U+FEF4 U+FEF3 U+064A U+FBFE]? [U+FEE2 U+FEE3 U+0645]
    <<Fixed(<<One({Alef}), Opt({LamInitial})>> \o Chars(<<65198, 65187>>)
                \o <<Opt({65268, 65267, 1610, 64510}), One({65250, 65251, 1605})>>,
            <<Alef, Lam, 1585, 1581, 1610, 1605>>)>>
>>

\* الله : U+0627 U+0644 U+0644 U+0647 after [اآ]
LlhAfterAlef == Chars(<<Lam, Lam, 1607>>)
\* حديث\s* : U+062D U+062F U+064A U+062B
HadithPrefix == Chars(<<1581, 1583, 1610, 1579>>) \o <<Star(RegexSpace)>>

\* religious_phrases (lines 339-347), in the dict's order
religious_phrases == <<
    \* r'صل[ىي]\s*[اآ]لله\s*عل[يى]ه\s*[وﻭ]سلم'
    <<Fixed(Chars(<<1589, Lam>>) \o <<One(YaForms), Star(RegexSpace), One(AlefForms)>>
                \o LlhAfterAlef \o <<Star(RegexSpace)>> \o Chars(<<1593, Lam>>)
                \o <<One(YaForms), One({1607}), Star(RegexSpace), One(WawForms)>>
                \o Chars(<<1587, Lam, 1605>>),
            <<1589, 1604, 1609, 32, 1575, 1604, 1604, 1607, 32, 1593, 1604, 1610,
              1607, 32, 1608, 1587, 1604, 1605>>)>>,
    \* r'رض[يى]\s*[اآ]لله\s*عنه'
    <<Fixed(Chars(<<1585, 1590>>) \o <<One(YaForms), Star(RegexSpace), One(AlefForms)>>
                \o LlhAfterAlef \o <<Star(RegexSpace)>> \o Chars(<<1593, 1606, 1607>>),
            <<1585, 1590, 1610, 32, 1575, 1604, 1604, 1607, 32, 1593, 1606, 1607>>)>>,
    \* r'عز\s*[وﻭ]جل'
    <<Fixed(Chars(<<1593, 1586>>) \o <<Star(RegexSpace), One(WawForms)>>
                \o Chars(<<1580, Lam>>),
            <<1593, 1586, 32, 1608, 1580, 1604>>)>>,
    \* r'تعال[ىي]'
    <<Fixed(Chars(<<1578, 1593, Alef, Lam>>) \o <<One(YaForms)>>,
            <<1578, 1593, 1575, 1604, 1609>>)>>,
    \* r'سبحانه'
    <<Fixed(Chars(<<1587, 1576, 1581, 1575, 1606, 1607>>),
            <<1587, 1576, 1581, 1575, 1606, 1607>>)>>,
    \* r'تبارك'
    <<Fixed(Chars(<<1578, 1576, 1575, 1585, 1603>>), <<1578, 1576, 1575, 1585, 1603>>)>>,
    \* r'حديث\s*(صحيح|حسن|ضعيف)' -> r'حديث \1': the group's alternatives in
    \* order, each with the replacement its word gives
    <<Fixed(HadithPrefix \o Chars(<<1589, 1581, 1610, 1581>>),
            <<1581, 1583, 1610, 1579, 32, 1589, 1581, 1610, 1581>>),
      Fixed(HadithPrefix \o Chars(<<1581, 1587, 1606>>),
            <<1581, 1583, 1610, 1579, 32, 1581, 1587, 1606>>),
      Fixed(HadithPrefix \o Chars(<<1590, 1593, 1610, 1601>>),
            <<1581, 1583, 1610, 1579, 32, 1590, 1593, 1610, 1601>>)>>
>>

\* [ءآأؤإئا]
AlefFamily == {1569, 1570, 1571, 1572, 1573, 1574, 1575}
\* [بتثجحخسشصضطظعغفقكلمنهي]
ConnectingLetters ==
    {1576, 1578, 1579, 1580, 1581, 1582, 1587, 1588, 1589, 1590, 1591, 1592,
     1593, 1594, 1601, 1602, 1603, 1604, 1605, 1606, 1607, 1610}

\* (the list without its first entry: tatweel removed only between letters)
ConnectedPatternsBetweenLettersOnly == <<
    <<Groups(<<Grp(AlefFamily), Plus({Tatweel}), Grp(AlefFamily)>>)>>,
    <<Groups(<<Grp(ConnectingLetters), Plus({Tatweel}), Grp(ConnectingLetters)>>)>>
>>
\* fix_connected_letters.patterns (lines 446-450), in list order
connected_patterns == <<
    \* (r'ـ+', '')
    <<Fixed(<<Plus({Tatweel})>>, <<>>)>>,
    \* (r'([ءآأؤإئا])ـ+([ءآأؤإئا])', r'\1\2')
    <<Groups(<<Grp(AlefFamily), Plus({Tatweel}), Grp(AlefFamily)>>)>>,
    \* (r'([بتث...])ـ+([بتث...])', r'\1\2')
    <<Groups(<<Grp(ConnectingLetters), Plus({Tatweel}), Grp(ConnectingLetters)>>)>>
>>

\* (the replacement f'{correct} ', without the leading space)
SymbolRulesTrailingSpaceOnly ==
    [i \in 1..Len(quranic_symbols) |->
        <<Fixed(Chars(quranic_symbols[i][1]), quranic_symbols[i][2] \o <<SP>>)>>]
\* lines 432-433: text.replace(symbol, f' {correct} ')
SymbolRules ==
    [i \in 1..Len(quranic_symbols) |->
        <<Fixed(Chars(quranic_symbols[i][1]),
                <<SP>> \o quranic_symbols[i][2] \o <<SP>>)>>]

\* (the pattern built from the ten digits only)
NumberRuleDigitsOnly ==
    [i \in 1..10 |-> Fixed(Chars(arabic_numbers[i][1]), arabic_numbers[i][2])]
\* lines 436-437: one pattern, the escaped keys joined by '|', and a replacement
\* looked up per match
NumberRule ==
    [i \in 1..Len(arabic_numbers) |->
        Fixed(Chars(arabic_numbers[i][1]), arabic_numbers[i][2])]

(***************************************************************************)
(* fix_arabic_ocr_errors: the categories in the order the body runs them.  *)
(***************************************************************************)
\* lines 329-330
ApplyLigatures(t) == ApplyRules(LiteralRules(arabic_ligatures), t)
\* lines 334-335
ApplyCommonWords(t) == ApplyRules(common_word_patterns, t)
\* lines 423-424
ApplyLetterFixes(t) == ApplyRules(LiteralRules(letter_fixes), t)
\* lines 428-429
ApplyReligiousPhrases(t) == ApplyRules(religious_phrases, t)
\* lines 432-433
ApplySymbols(t) == ApplyRules(SymbolRules, t)
\* lines 436-437
ApplyNumbers(t) == Sub(NumberRule, t)
\* lines 440-441
ApplyDiacritics(t) == ApplyRules(LiteralRules(diacritics), t)
RECURSIVE RemoveFirst(_, _)
RemoveFirst(t, c) ==
    IF t = <<>> THEN <<>>
    ELSE IF Head(t) = c THEN Tail(t) ELSE <<Head(t)>> \o RemoveFirst(Tail(t), c)
\* (re.sub with count 1: only the first tatweel goes)
FixConnectedFirstOnly(t) == RemoveFirst(t, Tatweel)
\* lines 444-457
fix_connected_letters(t) == ApplyRules(connected_patterns, t)

\* the statements of the body, top to bottom
CategoryOrderWordsBeforeLigatures ==
    <<"common_word_patterns", "arabic_ligatures", "letter_fixes", "religious_phrases",
      "quranic_symbols", "arabic_numbers", "diacritics", "fix_connected_letters">>
CategoryOrder ==
    <<"arabic_ligatures", "common_word_patterns", "letter_fixes", "religious_phrases",
      "quranic_symbols", "arabic_numbers", "diacritics", "fix_connected_letters">>

ApplyCategory(name, t) ==
    CASE name = "arabic_ligatures" -> ApplyLigatures(t)
      [] name = "common_word_patterns" -> ApplyCommonWords(t)
      [] name = "letter_fixes" -> ApplyLetterFixes(t)
      [] name = "religious_phrases" -> ApplyReligiousPhrases(t)
      [] name = "quranic_symbols" -> ApplySymbols(t)
      [] name = "arabic_numbers" -> ApplyNumbers(t)
      [] name = "diacritics" -> ApplyDiacritics(t)
      [] name = "fix_connected_letters" -> fix_connected_letters(t)

\* the argument None (not a str): a value that is no sequence of code points
NoneArg == <<0 - 1>>

\* lines 329-330, 423-424, 432-433, 440-441: text.replace is looked up on the
\* argument, and re.sub (335, 429, 437, 455) wants a str; only a str has both.
\* The function has no try statement.
RaisesOnEmptyToo(t) == t = NoneArg \/ t = <<>>
Raises(t) == t = NoneArg

RECURSIVE FixFrom(_, _)
\* the categories k.. of the body applied in turn
\* (t, the text so far, is computed before the next category is entered)
FixFrom(k, t) ==
    IF Len(t) >= 0 /\ k > Len(CategoryOrder) THEN t
    ELSE FixFrom(k + 1, ApplyCategory(CategoryOrder[k], t))

\* the value fix_arabic_ocr_errors(t) returns for a str t (line 459)
FixAll(t) == FixFrom(1, t)

(***************************************************************************)
(* State.                                                                  *)
(***************************************************************************)
VARIABLES
    text,            \* chunk_text: argument text
    max_chunk_size,  \* chunk_text: argument max_chunk_size
    paragraphs,      \* chunk_text: text.split('\n\n')
    chunks,          \* chunk_text: the list being returned
    current_chunk,   \* chunk_text: the accumulator
    pidx,            \* chunk_text: index of the next paragraph of the for loop
    owner,           \* history: owner[i] = number of the chunk paragraph i went to
    pc,              \* chunk_text: "idle", "split", "loop", "done", "error"
    raw,             \* fix_arabic_ocr_errors: the argument as it was passed
    ftext,           \* fix_arabic_ocr_errors: the local variable text
    stage,           \* fix_arabic_ocr_errors: number of rule categories applied
    applied,         \* history: the categories applied so far, in order
    raised,          \* fix_arabic_ocr_errors: an exception left the call
    calls,           \* history: number of calls of fix_arabic_ocr_errors entered
    extracted_texts, \* extract_text_from_pdf_page: the OCR candidates, in pass order
    final_text,      \* extract_text_from_pdf_page: the best corrected text so far
    ocr_pass,        \* extract_text_from_pdf_page: index of the next entry of ocr_configs
    cand,            \* extract_text_from_pdf_page: index of the next candidate (line 169)
    selected,        \* history: the candidates that replaced final_text, in order
    page_text,       \* extract_text_from_pdf_page: the value returned
    ppc,             \* extract_text_from_pdf_page: "idle", "ocr", "select", "done"
    char,            \* is_special_arabic_char: the argument
    verdict,         \* is_special_arabic_char: "pending", "True", "False", "raised"
    inv,             \* concurrent invocations: the frame (locals) of each
    ocr_log,         \* history: what each OCR pass gave, in pass order
    tchunks,         \* translate_chunks: argument chunks
    translated_chunks, \* translate_chunks: the list being returned
    tci,             \* translate_chunks: index i of the for loop (0-based)
    tc_calls,        \* history: the texts translate_text was called with, in order
    tc_progress,     \* history: the (current, total) pairs given to the callback
    tc_pc,           \* translate_chunks: "idle", "loop", "callback", "done"
    tc_callback,     \* translate_chunks: whether a callback was passed
    images,          \* translate_pdf_pages: argument images
    translated_pages, \* translate_pdf_pages: the list being returned
    tpi,             \* translate_pdf_pages: index i of the for loop (0-based)
    tp_progress,     \* history: the (current, total) pairs given to the callback
    tp_pc,           \* translate_pdf_pages: "idle", "loop", "image", "done"
    attempt,         \* translate_image: the loop variable attempt
    attempt_log,     \* history: how each model attempt for the image ended
    image_result,    \* translate_image: the value returned
    ti_pc,           \* translate_image: "idle", "start", "attempt", "returned", "raised"
    tp_callback,     \* translate_pdf_pages: whether a callback was passed
    tp_log,          \* history: per page, whether translate_image returned or raised
    credentials_file, \* login: the users stored in credentials.json
    session,         \* login: per session, the position and locals of register_user
    registered,      \* history: the (username, password) register_user returned True for
    uploaded_file,   \* app: the file the uploader widget holds (line 87), "" for None
    session_state,   \* app: st.session_state
    last_run         \* history: what the last script run was started by

chunkvars == <<text, max_chunk_size, paragraphs, chunks, current_chunk, pidx, owner, pc>>
fixvars == <<raw, ftext, stage, applied, raised, calls>>
pagevars == <<extracted_texts, final_text, ocr_pass, cand, selected, page_text, ppc, ocr_log>>
classvars == <<char, verdict>>
chunksvars == <<tchunks, translated_chunks, tci, tc_calls, tc_progress, tc_pc, tc_callback>>
pagesvars ==
    <<images, translated_pages, tpi, tp_progress, tp_pc, attempt, attempt_log,
      image_result, ti_pc, tp_callback, tp_log>>
loginvars == <<credentials_file, session, registered>>
appvars == <<uploaded_file, session_state, last_run>>
latervars == <<chunksvars, pagesvars, loginvars, appvars>>
othervars == <<pagevars, classvars, inv, latervars>>
vars == <<chunkvars, fixvars, othervars>>

\* the parts of the state a specification does not use stay as they start
FixIdle == raw = <<>> /\ ftext = <<>> /\ stage = 0 /\ applied = <<>> /\ raised = FALSE /\ calls = 0
PageIdle ==
    /\ extracted_texts = <<>> /\ final_text = <<>> /\ ocr_pass = 1 /\ cand = 1
    /\ selected = <<>> /\ page_text = <<>> /\ ppc = "idle" /\ ocr_log = <<>>
ClassIdle == char = <<>> /\ verdict = "pending"
InvIdle == inv = <<>>
ChunksIdle ==
    /\ tchunks = <<>> /\ translated_chunks = <<>> /\ tci = 0 /\ tc_calls = <<>>
    /\ tc_progress = <<>> /\ tc_pc = "idle" /\ tc_callback = FALSE
PagesIdle ==
    /\ images = <<>> /\ translated_pages = <<>> /\ tpi = 0 /\ tp_progress = <<>>
    /\ tp_pc = "idle" /\ attempt = 0 /\ attempt_log = <<>> /\ image_result = <<>>
    /\ ti_pc = "idle" /\ tp_callback = FALSE /\ tp_log = <<>>
LoginIdle == credentials_file = <<>> /\ session = <<>> /\ registered = {}
AppIdle == uploaded_file = "" /\ session_state = <<>> /\ last_run = "none"
LaterIdle == ChunksIdle /\ PagesIdle /\ LoginIdle /\ AppIdle
OthersIdle == PageIdle /\ ClassIdle /\ InvIdle /\ LaterIdle

(***************************************************************************)
(* chunk_text (src/pdf_utils.py 504-534).                                  *)
(***************************************************************************)
\* the inputs of SpecChunk: texts of a letter ("a", 97), spaces and newlines
ChunkAlphabet == {97, SP, NL}
ChunkTexts == UNION {[1..n -> ChunkAlphabet] : n \in 0..MaxTextLen}
ChunkSizes == (0 - 1)..MaxChunk

\* lines 504-516: the body starts with the split; there is no check of
\* max_chunk_size and no raise statement anywhere in the function
EntryPcValidating(m) == IF m <= 0 THEN "error" ELSE "split"
EntryPc(m) == "split"

\* line 524: len(current_chunk) + len(paragraph) > max_chunk_size and current_chunk
SealsOffByOne(cur, p, m) == Len(cur) + Len(p) >= m /\ cur # <<>>
SealsIgnoringSeparator(cur, p, m) == Len(Strip(cur)) + Len(p) > m /\ cur # <<>>
SealsUnlessOversize(cur, p, m) == Len(cur) + Len(p) > m /\ cur # <<>> /\ Len(p) <= m
Seals(cur, p, m) == Len(cur) + Len(p) > m /\ cur # <<>>

\* line 526: current_chunk = paragraph + "\n\n"
StartChunkEmpty(p) == <<>>
StartChunk(p) == p \o ParSep

\* lines 525 and 532: chunks.append(current_chunk.strip())
HardCut(cur, m) == IF m > 0 /\ Len(Strip(cur)) > m THEN SubSeq(Strip(cur), 1, m) ELSE Strip(cur)
Sealed(cur, m) == Strip(cur)

\* line 531: if current_chunk
KeepsLast(cur) == cur # <<>>

ChunkInit ==
    /\ text \in ChunkTexts
    /\ max_chunk_size \in ChunkSizes
    /\ paragraphs = <<>>
    /\ chunks = <<>>
    /\ current_chunk = <<>>
    /\ pidx = 1
    /\ owner = <<>>
    /\ pc = EntryPc(max_chunk_size)
    /\ FixIdle
    /\ OthersIdle

\* lines 516-519
ChunkSplit ==
    /\ pc = "split"
    /\ paragraphs' = SplitParagraphs(text)
    /\ chunks' = <<>>
    /\ current_chunk' = <<>>
    /\ pidx' = 1
    /\ owner' = <<>>
    /\ pc' = "loop"
    /\ UNCHANGED <<text, max_chunk_size, fixvars, othervars>>

\* lines 521-528: one iteration of the for loop
ChunkLoop ==
    /\ pc = "loop"
    /\ pidx <= Len(paragraphs)
    /\ LET paragraph == paragraphs[pidx] IN
       IF Seals(current_chunk, paragraph, max_chunk_size)
       THEN /\ chunks' = Append(chunks, Sealed(current_chunk, max_chunk_size))
            /\ current_chunk' = StartChunk(paragraph)
            /\ owner' = Append(owner, Len(chunks) + 2)
       ELSE /\ chunks' = chunks
            /\ current_chunk' = current_chunk \o paragraph \o ParSep
            /\ owner' = Append(owner, Len(chunks) + 1)
    /\ pidx' = pidx + 1
    /\ UNCHANGED <<text, max_chunk_size, paragraphs, pc, fixvars, othervars>>

\* lines 530-534: the for loop is exhausted
ChunkFinish ==
    /\ pc = "loop"
    /\ pidx > Len(paragraphs)
    /\ chunks' = IF KeepsLast(current_chunk)
                 THEN Append(chunks, Sealed(current_chunk, max_chunk_size))
                 ELSE chunks
    /\ pc' = "done"
    /\ UNCHANGED <<text, max_chunk_size, paragraphs, current_chunk, pidx, owner, fixvars, othervars>>

ChunkNext == ChunkSplit \/ ChunkLoop \/ ChunkFinish

SpecChunk == ChunkInit /\ [][ChunkNext]_vars

(***************************************************************************)
(* fix_arabic_ocr_errors as a process, and the hand-over of the corrected  *)
(* text to chunk_text with the default max_chunk_size.                     *)
(***************************************************************************)
\* def chunk_text(text, max_chunk_size: int = 4000)
DefaultMaxChunk == 4000

\* the inputs of SpecFix: every text up to MaxFixLen over characters the rule
\* categories act on (alef, initial lam, the Allah ligature U+FDF2, tatweel,
\* Arabic-Indic one U+0661, end of ayah U+06DD, space) ...
FixAlphabet == {Alef, LamInitial, 65010, Tatweel, 1633, 1757, SP}
FixTexts == UNION {[1..n -> FixAlphabet] : n \in 0..MaxFixLen}

\* ... and the worked examples:
\* "ﻻ" followed by the elongated "اﻟﻟ"
LamAlefThenElongatedAl == <<65275, Alef, LamInitial, LamInitial>>
\* "اﻟﻟ world\n\nﷲ is great"
EndToEndText ==
    <<Alef, LamInitial, LamInitial, SP, 119, 111, 114, 108, 100, NL, NL,
      65010, SP, 105, 115, SP, 103, 114, 101, 97, 116>>
FixExamples == {LamAlefThenElongatedAl, EndToEndText}
FixInputs == FixTexts \cup FixExamples

FixInit ==
    /\ raw \in FixInputs
    /\ ftext = raw
    /\ stage = 0
    /\ applied = <<>>
    /\ raised = FALSE
    /\ calls = 1
    /\ text = <<>>
    /\ max_chunk_size = DefaultMaxChunk
    /\ paragraphs = <<>>
    /\ chunks = <<>>
    /\ current_chunk = <<>>
    /\ pidx = 1
    /\ owner = <<>>
    /\ pc = "idle"
    /\ OthersIdle

\* the next category of the body, applied to the whole text
FixStep ==
    /\ calls > 0 /\ ~raised
    /\ stage < Len(CategoryOrder)
    /\ ~Raises(ftext)
    /\ ftext' = ApplyCategory(CategoryOrder[stage + 1], ftext)
    /\ applied' = Append(applied, CategoryOrder[stage + 1])
    /\ stage' = stage + 1
    /\ UNCHANGED <<raw, raised, calls, chunkvars, othervars>>

\* fix_arabic_ocr_errors has returned (line 459) and the application chunks
\* the extracted text: chunks = chunk_text(st.session_state.extracted_text)
ChunkCorrected ==
    /\ stage = Len(CategoryOrder)
    /\ pc = "idle"
    /\ text' = ftext
    /\ max_chunk_size' = DefaultMaxChunk
    /\ pc' = EntryPc(DefaultMaxChunk)
    /\ UNCHANGED <<paragraphs, chunks, current_chunk, pidx, owner, fixvars, othervars>>

FixNext == FixStep \/ ChunkCorrected \/ ChunkSplit \/ ChunkLoop \/ ChunkFinish

SpecFix == FixInit /\ [][FixNext]_vars

(***************************************************************************)
(* fix_arabic_ocr_errors called on any argument, and called again on the   *)
(* text it returned: fix_arabic_ocr_errors(fix_arabic_ocr_errors(t)).      *)
(***************************************************************************)
\* consecutive applications followed in SpecRepeat
MaxCalls == 2

\* the inputs of SpecRepeat: texts over characters of categories 5 to 8 and a
\* character no rule touches (tatweel, lam, fatha U+064E, Arabic-Indic one
\* U+0661, Arabic percent U+066A, end of ayah U+06DD, "a") ...
RepeatAlphabet == {Tatweel, Lam, 1614, 1633, 1642, 1757, 97}
RepeatTexts == UNION {[1..n -> RepeatAlphabet] : n \in 0..MaxFixLen}
\* ... the word with inserted tatweel "کـــتاب" ...
TatweelExample == <<1705, Tatweel, Tatweel, Tatweel, 1578, Alef, 1576>>
\* ... and an argument that is not a str
RepeatInputs == RepeatTexts \cup {TatweelExample, NoneArg}

RepeatInit ==
    /\ raw \in RepeatInputs
    /\ ftext = raw
    /\ stage = 0
    /\ applied = <<>>
    /\ raised = FALSE
    /\ calls = 1
    /\ text = <<>>
    /\ max_chunk_size = DefaultMaxChunk
    /\ paragraphs = <<>>
    /\ chunks = <<>>
    /\ current_chunk = <<>>
    /\ pidx = 1
    /\ owner = <<>>
    /\ pc = "idle"
    /\ OthersIdle

\* the first rule application fails (line 330) and nothing catches it
FixRaise ==
    /\ calls > 0 /\ ~raised
    /\ stage < Len(CategoryOrder)
    /\ Raises(ftext)
    /\ raised' = TRUE
    /\ UNCHANGED <<raw, ftext, stage, applied, calls, chunkvars, othervars>>

\* the call has returned (line 459) and its value is passed to a new call
FixAgain ==
    /\ calls > 0 /\ ~raised
    /\ stage = Len(CategoryOrder)
    /\ calls < MaxCalls
    /\ raw' = ftext
    /\ ftext' = ftext
    /\ stage' = 0
    /\ applied' = <<>>
    /\ calls' = calls + 1
    /\ UNCHANGED <<raised, chunkvars, othervars>>

RepeatNext == FixStep \/ FixRaise \/ FixAgain

SpecRepeat == RepeatInit /\ [][RepeatNext]_vars

(***************************************************************************)
(* is_special_arabic_char (src/pdf_utils.py 182-203).  The argument is a   *)
(* str, given as its sequence of code points, or None.                     *)
(***************************************************************************)
\* (the list without the entry (0x0870, 0x089F))
SpecialRangesWithoutExtendedB == <<
    <<1536, 1791>>, <<64336, 65023>>, <<65136, 65279>>, <<1872, 1919>>,
    <<2208, 2303>>, <<2192, 2303>>, <<69216, 69247>>, <<126464, 126719>>,
    <<1760, 1791>>, <<65008, 65023>>
>>
\* special_ranges (lines 185-197), in list order
special_ranges == <<
    <<1536, 1791>>,      \* (0x0600, 0x06FF)   Arabic
    <<64336, 65023>>,    \* (0xFB50, 0xFDFF)   Arabic Presentation Forms-A
    <<65136, 65279>>,    \* (0xFE70, 0xFEFF)   Arabic Presentation Forms-B
    <<1872, 1919>>,      \* (0x0750, 0x077F)   Arabic Supplement
    <<2208, 2303>>,      \* (0x08A0, 0x08FF)   Arabic Extended-A
    <<2160, 2207>>,      \* (0x0870, 0x089F)   Arabic Extended-B
    <<2192, 2303>>,      \* (0x0890, 0x08FF)   Arabic Extended-C
    <<69216, 69247>>,    \* (0x10E60, 0x10E7F) Rumi Numeral Symbols
    <<126464, 126719>>,  \* (0x1EE00, 0x1EEFF) Arabic Mathematical Alphabetic Symbols
    <<1760, 1791>>,      \* (0x06E0, 0x06FF)   Arabic Extended-B (additional)
    <<65008, 65023>>     \* (0xFDF0, 0xFDFF)   Arabic Ligatures
>>

\* line 199: if not char
NotCharEmptyOnly(ch) == ch = <<>>
NotChar(ch) == ch = NoneArg \/ ch = <<>>

\* lines 199-203; ord() raises TypeError unless it is given a str of length 1
is_special_arabic_char(ch) ==
    IF NotChar(ch) THEN "False"
    ELSE IF ch = NoneArg \/ Len(ch) # 1 THEN "raised"
    ELSE IF \E k \in 1..Len(special_ranges) :
               special_ranges[k][1] <= ch[1] /\ ch[1] <= special_ranges[k][2]
         THEN "True"
         ELSE "False"

\* the inputs of SpecClassify: the code points around every range of the
\* table (U+05F0..U+0910, U+FB40..U+FF10, U+10E50..U+10E90, U+1EDF0..U+1EF10),
\* the first and the last code point (U+10FFFF), the empty str and None
ClassifierCodes ==
    (1520..2320) \cup (64320..65296) \cup (69200..69264) \cup (126448..126736)
        \cup {0, 97, 1114111}
ClassifierInputs == {<<c>> : c \in ClassifierCodes} \cup {<<>>, NoneArg}

ClassifyInit ==
    /\ char \in ClassifierInputs
    /\ verdict = "pending"
    /\ text = <<>> /\ max_chunk_size = DefaultMaxChunk /\ paragraphs = <<>>
    /\ chunks = <<>> /\ current_chunk = <<>> /\ pidx = 1 /\ owner = <<>> /\ pc = "idle"
    /\ FixIdle /\ PageIdle /\ InvIdle /\ LaterIdle

\* one call
Classify ==
    /\ verdict = "pending"
    /\ verdict' = is_special_arabic_char(char)
    /\ UNCHANGED <<char, chunkvars, fixvars, pagevars, inv, latervars>>

SpecClassify == ClassifyInit /\ [][Classify]_vars

(***************************************************************************)
(* extract_text_from_pdf_page in OCR mode (src/pdf_utils.py 119-180).      *)
(***************************************************************************)
\* longest text an OCR pass gives in SpecPage
MaxCandLen == 1
\* len(ocr_configs), lines 136-152
NumConfigs == 3

\* what an OCR pass can read: "a", alef, the Allah ligature U+FDF2, the end
\* of ayah U+06DD, the Arabic-Indic one U+0661
PageAlphabet == {97, Alef, 65010, 1757, 1633}
PageTexts == UNION {[1..n -> PageAlphabet] : n \in 0..MaxCandLen}

\* line 171: fix_arabic_ocr_errors(text), tabulated for the texts a pass can
\* give as pairs <<text, corrected text>>
CorrectedPairs == {<<t, FixAll(t)>> : t \in PageTexts}
CorrectedText(t) == (CHOOSE p \in CorrectedPairs : p[1] = t)[2]

RECURSIVE SpecialCount(_)
\* line 174: len([c for c in text if is_special_arabic_char(c)])
SpecialCount(t) ==
    IF t = <<>> THEN 0
    ELSE (IF is_special_arabic_char(<<Head(t)>>) = "True" THEN 1 ELSE 0)
         + SpecialCount(Tail(t))

\* line 174: the corrected candidate replaces final_text
BeatsOrTies(new, old) == SpecialCount(new) >= SpecialCount(old)
Beats(new, old) == SpecialCount(new) > SpecialCount(old)

\* line 177: return final_text or extracted_texts[0] if extracted_texts else ""
PageValue(final, cands) ==
    IF cands # <<>> THEN (IF final # <<>> THEN final ELSE cands[1]) ELSE <<>>

PageInit ==
    /\ ppc = "convert"
    /\ extracted_texts = <<>>
    /\ final_text = <<>>
    /\ ocr_pass = 1
    /\ cand = 1
    /\ selected = <<>>
    /\ page_text = <<>>
    /\ ocr_log = <<>>
    /\ text = <<>> /\ max_chunk_size = DefaultMaxChunk /\ paragraphs = <<>>
    /\ chunks = <<>> /\ current_chunk = <<>> /\ pidx = 1 /\ owner = <<>> /\ pc = "idle"
    /\ FixIdle /\ ClassIdle /\ InvIdle /\ LaterIdle

\* lines 121-133: the page became an image
PageConverted ==
    /\ ppc = "convert"
    /\ extracted_texts' = <<>>
    /\ ocr_pass' = 1
    /\ ocr_log' = <<>>
    /\ ppc' = "ocr"
    /\ UNCHANGED <<final_text, cand, selected, page_text, chunkvars, fixvars, classvars, inv,
                   latervars>>

\* lines 121-124 and 179-180: the conversion raised or gave no image; the
\* function raises
PageConvertFails ==
    /\ ppc = "convert"
    /\ ppc' = "raised"
    /\ UNCHANGED <<extracted_texts, final_text, ocr_pass, cand, selected, page_text, ocr_log,
                   chunkvars, fixvars, classvars, inv, latervars>>

\* lines 154-162: a pass gives a text
OcrPassReads ==
    /\ ppc = "ocr"
    /\ ocr_pass <= NumConfigs
    /\ \E t \in PageTexts :
          /\ extracted_texts' = Append(extracted_texts, t)
          /\ ocr_log' = Append(ocr_log, <<"read", t>>)
    /\ ocr_pass' = ocr_pass + 1
    /\ UNCHANGED <<final_text, cand, selected, page_text, ppc, chunkvars, fixvars, classvars, inv,
                   latervars>>

\* lines 163-165: except Exception ... continue
AfterFailedPassAborting == "raised"
AfterFailedPass == "ocr"

\* lines 163-165: a pass raises; it is reported and left out
OcrPassFails ==
    /\ ppc = "ocr"
    /\ ocr_pass <= NumConfigs
    /\ ocr_pass' = ocr_pass + 1
    /\ ocr_log' = Append(ocr_log, <<"raise", <<>>>>)
    /\ ppc' = AfterFailedPass
    /\ UNCHANGED <<extracted_texts, final_text, cand, selected, page_text,
                   chunkvars, fixvars, classvars, inv, latervars>>

\* line 168: the passes are over
PageStartSelect ==
    /\ ppc = "ocr"
    /\ ocr_pass > NumConfigs
    /\ final_text' = <<>>
    /\ cand' = 1
    /\ selected' = <<>>
    /\ ppc' = "select"
    /\ UNCHANGED <<extracted_texts, ocr_pass, page_text, ocr_log, chunkvars, fixvars, classvars,
                   inv, latervars>>

\* lines 169-175: one iteration of the loop over the candidates
PageSelectStep ==
    /\ ppc = "select"
    /\ cand <= Len(extracted_texts)
    /\ LET corrected == CorrectedText(extracted_texts[cand]) IN
       IF Beats(corrected, final_text)
       THEN /\ final_text' = corrected
            /\ selected' = Append(selected, cand)
       ELSE UNCHANGED <<final_text, selected>>
    /\ cand' = cand + 1
    /\ UNCHANGED <<extracted_texts, ocr_pass, page_text, ppc, ocr_log, chunkvars, fixvars,
                   classvars, inv, latervars>>

\* line 177
PageReturn ==
    /\ ppc = "select"
    /\ cand > Len(extracted_texts)
    /\ page_text' = PageValue(final_text, extracted_texts)
    /\ ppc' = "done"
    /\ UNCHANGED <<extracted_texts, final_text, ocr_pass, cand, selected, ocr_log,
                   chunkvars, fixvars, classvars, inv, latervars>>

PageNext ==
    \/ PageConverted \/ PageConvertFails \/ OcrPassReads \/ OcrPassFails
    \/ PageStartSelect \/ PageSelectStep \/ PageReturn

SpecPage == PageInit /\ [][PageNext]_vars

(***************************************************************************)
(* Several calls of the three functions in progress at once.  Every call   *)
(* has its own frame: the parameters and the locals of the three functions *)
(* (the rule tables of fix_arabic_ocr_errors among them) are created by    *)
(* the call, and no function has a global or nonlocal statement or writes  *)
(* a module attribute.  inv.ctl[i] is the position of call i and the value *)
(* it returned, inv.data[f] the variables of frame f.                      *)
(***************************************************************************)
\* calls in progress at once in SpecConcurrent
MaxInvocations == 2

RECURSIVE ChunkFold(_, _, _, _, _)
\* lines 521-532: the for loop from paragraph k on, then the last chunk
ChunkFold(ps, k, cur, out, m) ==
    IF k > Len(ps)
    THEN (IF KeepsLast(cur) THEN Append(out, Sealed(cur, m)) ELSE out)
    ELSE IF Seals(cur, ps[k], m)
         THEN ChunkFold(ps, k + 1, StartChunk(ps[k]), Append(out, Sealed(cur, m)), m)
         ELSE ChunkFold(ps, k + 1, cur \o ps[k] \o ParSep, out, m)

\* the value chunk_text(t, m) returns (line 534)
ChunkAll(t, m) == ChunkFold(SplitParagraphs(t), 1, <<>>, <<>>, m)

\* the calls made in SpecConcurrent: the corrector on "ﷲ" and on "ـ۝", the
\* chunker on "a\n\na" with max_chunk_size 1 and 4, the classifier on alef
\* and on "a"
ConcurrentCalls ==
    {[kind |-> "fix", arg |-> <<65010>>, size |-> 0],
     [kind |-> "fix", arg |-> <<Tatweel, 1757>>, size |-> 0],
     [kind |-> "chunk", arg |-> <<97, NL, NL, 97>>, size |-> 1],
     [kind |-> "chunk", arg |-> <<97, NL, NL, 97>>, size |-> 4],
     [kind |-> "classify", arg |-> <<Alef>>, size |-> 0],
     [kind |-> "classify", arg |-> <<97>>, size |-> 0]}

\* the frame call i works in: its own
SharedFrame(i) == 1
Frame(i) == i

NewFrame(arg) == [arg |-> arg, paragraphs |-> <<>>, chunks |-> <<>>, current_chunk |-> <<>>]
NoFrame == NewFrame(<<>>)

ConcurrentInit ==
    /\ \E n \in 1..MaxInvocations :
          \E calls_made \in [1..n -> ConcurrentCalls] :
              inv = [ctl |-> [i \in 1..n |->
                                [call |-> calls_made[i], pc |-> "call", step |-> 0,
                                 result |-> "none"]],
                     data |-> [i \in 1..n |-> NoFrame]]
    /\ text = <<>> /\ max_chunk_size = DefaultMaxChunk /\ paragraphs = <<>>
    /\ chunks = <<>> /\ current_chunk = <<>> /\ pidx = 1 /\ owner = <<>> /\ pc = "idle"
    /\ FixIdle /\ PageIdle /\ ClassIdle /\ LaterIdle

Ctl(i) == inv.ctl[i]
Data(i) == inv.data[Frame(i)]

\* call i moves to pc p and step k with result r, its frame becomes d
InvMove(i, p, k, r, d) ==
    /\ inv' = [ctl |-> [inv.ctl EXCEPT ![i] = [@ EXCEPT !.pc = p, !.step = k, !.result = r]],
               data |-> [inv.data EXCEPT ![Frame(i)] = d]]
    /\ UNCHANGED <<chunkvars, fixvars, pagevars, classvars, latervars>>

\* the call binds its parameters (lines 182, 205, 504)
InvEnter(i) ==
    /\ Ctl(i).pc = "call"
    /\ InvMove(i, "run", 0, "none", NewFrame(Ctl(i).call.arg))

\* fix_arabic_ocr_errors: the next category, applied to the call's text
InvFixStep(i) ==
    /\ Ctl(i).pc = "run" /\ Ctl(i).call.kind = "fix"
    /\ Ctl(i).step < Len(CategoryOrder)
    /\ InvMove(i, "run", Ctl(i).step + 1, "none",
               [Data(i) EXCEPT !.arg = ApplyCategory(CategoryOrder[Ctl(i).step + 1], @)])

\* fix_arabic_ocr_errors: return text (line 459)
InvFixReturn(i) ==
    /\ Ctl(i).pc = "run" /\ Ctl(i).call.kind = "fix"
    /\ Ctl(i).step = Len(CategoryOrder)
    /\ InvMove(i, "done", Ctl(i).step, Data(i).arg, Data(i))

\* chunk_text: lines 516-519
InvChunkSplit(i) ==
    /\ Ctl(i).pc = "run" /\ Ctl(i).call.kind = "chunk"
    /\ Ctl(i).step = 0
    /\ InvMove(i, "run", 1, "none",
               [Data(i) EXCEPT !.paragraphs = SplitParagraphs(Data(i).arg),
                               !.chunks = <<>>, !.current_chunk = <<>>])

\* chunk_text: lines 521-528, iteration number step of the for loop
InvChunkLoop(i) ==
    /\ Ctl(i).pc = "run" /\ Ctl(i).call.kind = "chunk"
    /\ Ctl(i).step >= 1 /\ Ctl(i).step <= Len(Data(i).paragraphs)
    /\ LET d == Data(i)
           paragraph == d.paragraphs[Ctl(i).step]
           m == Ctl(i).call.size
       IN InvMove(i, "run", Ctl(i).step + 1, "none",
                  IF Seals(d.current_chunk, paragraph, m)
                  THEN [d EXCEPT !.chunks = Append(@, Sealed(d.current_chunk, m)),
                                 !.current_chunk = StartChunk(paragraph)]
                  ELSE [d EXCEPT !.current_chunk = @ \o paragraph \o ParSep])

\* chunk_text: lines 530-534
InvChunkReturn(i) ==
    /\ Ctl(i).pc = "run" /\ Ctl(i).call.kind = "chunk"
    /\ Ctl(i).step > Len(Data(i).paragraphs)
    /\ LET d == Data(i)
           all == IF KeepsLast(d.current_chunk)
                  THEN Append(d.chunks, Sealed(d.current_chunk, Ctl(i).call.size))
                  ELSE d.chunks
       IN InvMove(i, "done", Ctl(i).step, all, [d EXCEPT !.chunks = all])

\* is_special_arabic_char: lines 199-203
InvClassify(i) ==
    /\ Ctl(i).pc = "run" /\ Ctl(i).call.kind = "classify"
    /\ InvMove(i, "done", Ctl(i).step, is_special_arabic_char(Data(i).arg), Data(i))

\* any call in progress takes its next step
ConcurrentNext ==
    \E i \in DOMAIN inv.ctl :
        \/ InvEnter(i) \/ InvFixStep(i) \/ InvFixReturn(i)
        \/ InvChunkSplit(i) \/ InvChunkLoop(i) \/ InvChunkReturn(i)
        \/ InvClassify(i)

SpecConcurrent == ConcurrentInit /\ [][ConcurrentNext]_vars

(***************************************************************************)
(* translate_chunks and translate_text (src/translation.py 56-114).  The   *)
(* model service is the environment: its reply to a text is chosen among   *)
(* the replies below, or it gives a response without text, or it raises.   *)
(***************************************************************************)
MaxChunks == 3

\* chunk_text is not called
ChunkerIdle ==
    /\ text = <<>> /\ max_chunk_size = DefaultMaxChunk /\ paragraphs = <<>>
    /\ chunks = <<>> /\ current_chunk = <<>> /\ pidx = 1 /\ owner = <<>> /\ pc = "idle"

\* the chunks of a call: the empty chunk, a blank one, "a", "b"
TranslatedChunkTexts == {<<>>, <<SP>>, <<97>>, <<98>>}
ChunkLists == UNION {[1..n -> TranslatedChunkTexts] : n \in 0..MaxChunks}

\* the translation the service makes of a text: here its capitals
Translated(c) == [k \in 1..Len(c) |-> IF c[k] >= 97 /\ c[k] <= 122 THEN c[k] - 32 ELSE c[k]]

\* line 78: response.text for the prompt of the text: the translation between
\* white space, or an empty reply
ModelReplies(c) == {<<SP>> \o Translated(c) \o <<NL>>, <<>>}

\* lines 78-86: the ways the call of the service ends
ModelOutcomes(c) ==
    {<<"text", r>> : r \in ModelReplies(c)} \cup {<<"none", <<>>>>, <<"error", <<>>>>}

\* line 86: the string "Translation error: ... Please check your input and
\* try again."
TranslationError == <<0 - 2>>

\* lines 67-86, for the way o the call of the service ends
translate_text(c, o) ==
    IF Strip(c) = <<>> THEN <<>>
    ELSE IF o[1] = "text" THEN Strip(o[2])
    ELSE IF o[1] = "none" THEN NoneArg
    ELSE TranslationError

\* line 112: the first argument of callback(i + 1, len(chunks))
ProgressCountZeroBased(i) == i
ProgressCount(i) == i + 1

TranslateChunksInit ==
    /\ tchunks \in ChunkLists
    /\ tc_callback \in BOOLEAN
    /\ translated_chunks = <<>>
    /\ tci = 0
    /\ tc_calls = <<>>
    /\ tc_progress = <<>>
    /\ tc_pc = "loop"
    /\ ChunkerIdle /\ FixIdle /\ PageIdle /\ ClassIdle /\ InvIdle
    /\ PagesIdle /\ LoginIdle /\ AppIdle

\* lines 107-109: the next chunk is translated and its result appended
TranslateChunk ==
    /\ tc_pc = "loop"
    /\ tci < Len(tchunks)
    /\ \E o \in ModelOutcomes(tchunks[tci + 1]) :
          LET translated_text == translate_text(tchunks[tci + 1], o)
          IN  /\ translated_chunks' = Append(translated_chunks, translated_text)
              /\ tc_calls' = Append(tc_calls, <<tchunks[tci + 1], translated_text>>)
    /\ tc_pc' = "callback"
    /\ UNCHANGED <<tchunks, tci, tc_progress, tc_callback, chunkvars, fixvars, pagevars,
                   classvars, inv, pagesvars, loginvars, appvars>>

\* lines 111-112: if callback: callback(i + 1, len(chunks)); next iteration
ReportChunk ==
    /\ tc_pc = "callback"
    /\ tc_progress' =
          IF tc_callback
          THEN Append(tc_progress, <<ProgressCount(tci), Len(tchunks)>>)
          ELSE tc_progress
    /\ tci' = tci + 1
    /\ tc_pc' = "loop"
    /\ UNCHANGED <<tchunks, translated_chunks, tc_calls, tc_callback, chunkvars, fixvars,
                   pagevars, classvars, inv, pagesvars, loginvars, appvars>>

\* line 114: return translated_chunks
TranslateChunksReturn ==
    /\ tc_pc = "loop"
    /\ tci = Len(tchunks)
    /\ tc_pc' = "done"
    /\ UNCHANGED <<tchunks, translated_chunks, tci, tc_calls, tc_progress, tc_callback,
                   chunkvars, fixvars, pagevars, classvars, inv, pagesvars, loginvars, appvars>>

TranslateChunksNext == TranslateChunk \/ ReportChunk \/ TranslateChunksReturn

SpecTranslateChunks == TranslateChunksInit /\ [][TranslateChunksNext]_vars

(***************************************************************************)
(* translate_pdf_pages and translate_image (src/translation.py 116-217).   *)
(* An image is named by the letter it shows; the model service is the      *)
(* environment, as above.                                                  *)
(***************************************************************************)
MaxPages == 2

\* line 119
max_retries == 3

\* the pages: one shows "c", the other "d"
PageImages == {99, 100}
ImageLists == UNION {[1..n -> PageImages] : n \in 0..MaxPages}

\* line 164: response.text for the image: the translation of what it shows
\* between white space, or an empty or blank reply
ImageReplies(image) == {<<SP>> \o Translated(<<image>>) \o <<NL>>, <<>>, <<SP>>}

\* line 179: "No readable text could be found on this page. Please check the
\* image quality and try again."
NoReadableMessage == <<0 - 3>>
\* line 181: "Translation failed after multiple attempts. Please try again."
FailedMessage == <<0 - 4>>
\* line 210: f"Error translating page {i+1}: {str(e)}"
PageErrorMessage(i) == <<0 - 5, i + 1>>

\* lines 172 and 177: attempt == max_retries - 1
LastAttempt == attempt = max_retries - 1

\* lines 176-179: what the outer except makes of the error of the last
\* attempt: the function returns the message of line 179
AfterLastErrorPropagates == "raised"
AfterLastError == "returned"

\* lines 209-212: the entries appended for page i when translate_image raised
PageErrorDropped(i) == <<>>
PageErrorEntries(i) == <<PageErrorMessage(i)>>

TranslatePagesInit ==
    /\ images \in ImageLists
    /\ tp_callback \in BOOLEAN
    /\ translated_pages = <<>>
    /\ tpi = 0
    /\ tp_progress = <<>>
    /\ tp_log = <<>>
    /\ tp_pc = "loop"
    /\ attempt = 0 /\ attempt_log = <<>> /\ image_result = <<>> /\ ti_pc = "idle"
    /\ ChunkerIdle /\ FixIdle /\ PageIdle /\ ClassIdle /\ InvIdle
    /\ ChunksIdle /\ LoginIdle /\ AppIdle

\* lines 202-204: translate_image is called for the next image
PageEnter ==
    /\ tp_pc = "loop"
    /\ tpi < Len(images)
    /\ tp_pc' = "image"
    /\ ti_pc' = "start"
    /\ attempt' = 0
    /\ attempt_log' = <<>>
    /\ image_result' = <<>>
    /\ UNCHANGED <<images, translated_pages, tpi, tp_progress, tp_callback, tp_log,
                   chunkvars, fixvars, pagevars, classvars, inv, chunksvars, loginvars, appvars>>

\* lines 122-127: the image is converted (and resized), the loop starts
Preprocess ==
    /\ ti_pc = "start"
    /\ ti_pc' = "attempt"
    /\ UNCHANGED <<images, translated_pages, tpi, tp_progress, tp_pc, attempt, attempt_log,
                   image_result, tp_callback, tp_log,
                   chunkvars, fixvars, pagevars, classvars, inv, chunksvars, loginvars, appvars>>

\* lines 122-125 are outside every try: image.convert or thumbnail raises
PreprocessFails ==
    /\ ti_pc = "start"
    /\ ti_pc' = "raised"
    /\ UNCHANGED <<images, translated_pages, tpi, tp_progress, tp_pc, attempt, attempt_log,
                   image_result, tp_callback, tp_log,
                   chunkvars, fixvars, pagevars, classvars, inv, chunksvars, loginvars, appvars>>

\* lines 154-166: the reply has text that is not blank: it is returned
AttemptReturnsText ==
    /\ ti_pc = "attempt"
    /\ attempt < max_retries
    /\ \E r \in ImageReplies(images[tpi + 1]) :
          LET translated_text == Strip(r)
          IN  /\ translated_text # <<>>
              /\ image_result' = translated_text
              /\ attempt_log' = Append(attempt_log, <<"text", translated_text>>)
    /\ ti_pc' = "returned"
    /\ UNCHANGED <<images, translated_pages, tpi, tp_progress, tp_pc, attempt, tp_callback, tp_log,
                   chunkvars, fixvars, pagevars, classvars, inv, chunksvars, loginvars, appvars>>

\* lines 154-174 and 176-179: the service raises, or its reply is blank and
\* line 168 raises; the inner except goes on to the next attempt, or on the
\* last attempt raises again into the outer except
AttemptFailsInModel ==
    /\ ti_pc = "attempt"
    /\ attempt < max_retries
    /\ \E kind \in {"error", "empty"} :
          /\ kind = "empty" => \E r \in ImageReplies(images[tpi + 1]) : Strip(r) = <<>>
          /\ attempt_log' = Append(attempt_log, <<kind, <<>>>>)
    /\ IF LastAttempt
       THEN /\ ti_pc' = AfterLastError
            /\ image_result' = NoReadableMessage
            /\ UNCHANGED attempt
       ELSE /\ attempt' = attempt + 1
            /\ UNCHANGED <<ti_pc, image_result>>
    /\ UNCHANGED <<images, translated_pages, tpi, tp_progress, tp_pc, tp_callback, tp_log,
                   chunkvars, fixvars, pagevars, classvars, inv, chunksvars, loginvars, appvars>>

\* line 163 is false: no response, or a response without text; nothing is
\* raised and the loop goes on
AttemptWithoutText ==
    /\ ti_pc = "attempt"
    /\ attempt < max_retries
    /\ attempt_log' = Append(attempt_log, <<"none", <<>>>>)
    /\ attempt' = attempt + 1
    /\ UNCHANGED <<images, translated_pages, tpi, tp_progress, tp_pc, image_result, ti_pc,
                   tp_callback, tp_log,
                   chunkvars, fixvars, pagevars, classvars, inv, chunksvars, loginvars, appvars>>

\* lines 129-131 and 176-179: img.save raises before the service is asked
AttemptSaveFails ==
    /\ ti_pc = "attempt"
    /\ attempt < max_retries
    /\ attempt_log' = Append(attempt_log, <<"save", <<>>>>)
    /\ IF LastAttempt
       THEN /\ ti_pc' = "returned"
            /\ image_result' = NoReadableMessage
            /\ UNCHANGED attempt
       ELSE /\ attempt' = attempt + 1
            /\ UNCHANGED <<ti_pc, image_result>>
    /\ UNCHANGED <<images, translated_pages, tpi, tp_progress, tp_pc, tp_callback, tp_log,
                   chunkvars, fixvars, pagevars, classvars, inv, chunksvars, loginvars, appvars>>

\* line 181: the loop ended without a return
RetriesExhausted ==
    /\ ti_pc = "attempt"
    /\ attempt = max_retries
    /\ ti_pc' = "returned"
    /\ image_result' = FailedMessage
    /\ UNCHANGED <<images, translated_pages, tpi, tp_progress, tp_pc, attempt, attempt_log,
                   tp_callback, tp_log,
                   chunkvars, fixvars, pagevars, classvars, inv, chunksvars, loginvars, appvars>>

\* lines 205-208: the result is appended and the progress reported
PageTranslated ==
    /\ tp_pc = "image"
    /\ ti_pc = "returned"
    /\ translated_pages' = Append(translated_pages, image_result)
    /\ tp_log' = Append(tp_log, <<images[tpi + 1], "return", image_result>>)
    /\ tp_progress' =
          IF tp_callback THEN Append(tp_progress, <<tpi + 1, Len(images)>>) ELSE tp_progress
    /\ tpi' = tpi + 1
    /\ tp_pc' = "loop"
    /\ UNCHANGED <<images, attempt, attempt_log, image_result, ti_pc, tp_callback,
                   chunkvars, fixvars, pagevars, classvars, inv, chunksvars, loginvars, appvars>>

\* lines 209-215: translate_image raised: the error message is appended in
\* its place and the progress reported
PageFailed ==
    /\ tp_pc = "image"
    /\ ti_pc = "raised"
    /\ translated_pages' = translated_pages \o PageErrorEntries(tpi)
    /\ tp_log' = Append(tp_log, <<images[tpi + 1], "raise", <<>>>>)
    /\ tp_progress' =
          IF tp_callback THEN Append(tp_progress, <<tpi + 1, Len(images)>>) ELSE tp_progress
    /\ tpi' = tpi + 1
    /\ tp_pc' = "loop"
    /\ UNCHANGED <<images, attempt, attempt_log, image_result, ti_pc, tp_callback,
                   chunkvars, fixvars, pagevars, classvars, inv, chunksvars, loginvars, appvars>>

\* line 217: return translated_pages
TranslatePagesReturn ==
    /\ tp_pc = "loop"
    /\ tpi = Len(images)
    /\ tp_pc' = "done"
    /\ UNCHANGED <<images, translated_pages, tpi, tp_progress, attempt, attempt_log,
                   image_result, ti_pc, tp_callback, tp_log,
                   chunkvars, fixvars, pagevars, classvars, inv, chunksvars, loginvars, appvars>>

TranslatePagesNext ==
    \/ PageEnter \/ Preprocess \/ PreprocessFails
    \/ AttemptReturnsText \/ AttemptFailsInModel \/ AttemptWithoutText \/ AttemptSaveFails
    \/ RetriesExhausted
    \/ PageTranslated \/ PageFailed \/ TranslatePagesReturn

SpecTranslatePages == TranslatePagesInit /\ [][TranslatePagesNext]_vars

(***************************************************************************)
(* The credential store (src/login.py).  Every app session runs the        *)
(* functions on the one file credentials.json; a read of the file and a    *)
(* write of the file are the atomic steps.                                 *)
(***************************************************************************)
MaxSessions == 2

Sessions == 1..MaxSessions
Usernames == {"a", "b"}
Passwords == {"p", "q"}

\* lines 5-17: the "users" list of the file (a missing file is created with
\* an empty list)
load_credentials == credentials_file

\* lines 25-31
check_credentials(username, password) ==
    LET credentials == load_credentials
    IN  \E k \in 1..Len(credentials) :
            /\ credentials[k].username = username
            /\ credentials[k].password = password

\* line 38, on the credentials the call loaded
UsernameExists(credentials, username) ==
    \E k \in 1..Len(credentials) : credentials[k].username = username

\* a session that is not inside register_user; ret is what its last call
\* returned
NoCall == [pc |-> "idle", username |-> "", password |-> "", credentials |-> <<>>, ret |-> ""]

LoginInit ==
    /\ credentials_file = <<>>
    /\ session = [s \in Sessions |-> [NoCall EXCEPT !.pc = "idle"]]
    /\ registered = {}
    /\ ChunkerIdle /\ FixIdle /\ PageIdle /\ ClassIdle /\ InvIdle
    /\ ChunksIdle /\ PagesIdle /\ AppIdle

\* line 35: register_user(username, password) loads the file
RegisterLoad(s) ==
    /\ session[s].pc = "idle"
    /\ \E username \in Usernames, password \in Passwords :
          session' = [session EXCEPT ![s] =
                         [pc |-> "loaded", username |-> username, password |-> password,
                          credentials |-> load_credentials, ret |-> ""]]
    /\ UNCHANGED <<credentials_file, registered,
                   chunkvars, fixvars, pagevars, classvars, inv, chunksvars, pagesvars, appvars>>

\* lines 38-39: the username is in the loaded list: return False
RegisterRefused(s) ==
    /\ session[s].pc = "loaded"
    /\ UsernameExists(session[s].credentials, session[s].username)
    /\ session' = [session EXCEPT ![s] = [NoCall EXCEPT !.ret = "False"]]
    /\ UNCHANGED <<credentials_file, registered,
                   chunkvars, fixvars, pagevars, classvars, inv, chunksvars, pagesvars, appvars>>

\* lines 42-44: the user is appended to the loaded list, the list is written
\* over the file, return True
RegisterSaved(s) ==
    /\ session[s].pc = "loaded"
    /\ ~UsernameExists(session[s].credentials, session[s].username)
    /\ credentials_file' =
          Append(session[s].credentials,
                 [username |-> session[s].username, password |-> session[s].password])
    /\ registered' = registered \cup {<<session[s].username, session[s].password>>}
    /\ session' = [session EXCEPT ![s] = [NoCall EXCEPT !.ret = "True"]]
    /\ UNCHANGED <<chunkvars, fixvars, pagevars, classvars, inv, chunksvars, pagesvars, appvars>>

LoginNext == \E s \in Sessions : RegisterLoad(s) \/ RegisterRefused(s) \/ RegisterSaved(s)

SpecLogin == LoginInit /\ [][LoginNext]_vars

(***************************************************************************)
(* One app session (src/app.py).  Streamlit runs the script from the top   *)
(* on every interaction; an action is one run of the script.  A file is    *)
(* named by its name, "" stands for None.                                  *)
(***************************************************************************)
FileNames == {"a.pdf", "b.pdf"}
\* page numbers of a PDF
PdfPages == {0, 1}

\* lines 17-39
InitialSessionState ==
    [uploaded_file |-> "", pdf_info |-> FALSE, extracted_text |-> "",
     translated_text |-> "", translation_completed |-> FALSE,
     page_texts |-> {}, page_translations |-> {}]

\* lines 89-104: the reset for a new file; info is whether get_pdf_info
\* returned (pdf_info is not None)
NewFileReset(ss, file, info) ==
    IF file # "" /\ (ss.uploaded_file = "" \/ ss.uploaded_file # file)
    THEN [ss EXCEPT !.uploaded_file = file, !.extracted_text = "", !.translated_text = "",
                    !.translation_completed = FALSE, !.page_texts = {},
                    !.page_translations = {}, !.pdf_info = info]
    ELSE ss

\* line 107
MainShown(ss) == ss.uploaded_file # "" /\ ss.pdf_info

AppInit ==
    /\ uploaded_file = ""
    /\ session_state = InitialSessionState
    /\ last_run = "start"
    /\ ChunkerIdle /\ FixIdle /\ PageIdle /\ ClassIdle /\ InvIdle
    /\ ChunksIdle /\ PagesIdle /\ LoginIdle

\* the user puts another file in the uploader, or removes the file: the
\* script runs with no button pressed
Upload ==
    /\ \E file \in FileNames \cup {""}, info \in BOOLEAN :
          /\ file # uploaded_file
          /\ uploaded_file' = file
          /\ session_state' = NewFileReset(session_state, file, info)
    /\ last_run' = "upload"
    /\ UNCHANGED <<chunkvars, fixvars, pagevars, classvars, inv, chunksvars, pagesvars, loginvars>>

\* any other interaction (a radio, the page selection, the download button):
\* the script runs with the same file in the uploader and no button pressed
Rerun ==
    /\ \E info \in BOOLEAN :
          session_state' = NewFileReset(session_state, uploaded_file, info)
    /\ last_run' = "rerun"
    /\ UNCHANGED <<uploaded_file,
                   chunkvars, fixvars, pagevars, classvars, inv, chunksvars, pagesvars, loginvars>>

\* lines 175-212: "Extract Text" with some pages selected
ExtractText ==
    /\ \E info \in BOOLEAN, pages \in (SUBSET PdfPages) \ {{}}, ok \in BOOLEAN :
          LET ss == NewFileReset(session_state, uploaded_file, info)
          IN  /\ MainShown(ss)
              /\ session_state' =
                    IF ok
                    THEN [ss EXCEPT !.page_texts = pages, !.extracted_text = "text"]
                    ELSE [ss EXCEPT !.page_texts = {}]
    /\ last_run' = "extract"
    /\ UNCHANGED <<uploaded_file,
                   chunkvars, fixvars, pagevars, classvars, inv, chunksvars, pagesvars, loginvars>>

\* lines 334-409: "Translate Text", all pages together (way = "all") or each
\* page by itself (way = "each"); the joined translation can be empty
TranslateText ==
    /\ \E info \in BOOLEAN, way \in {"all", "each"}, ok \in BOOLEAN,
          combined_translation \in {"", "translation"} :
          LET ss == NewFileReset(session_state, uploaded_file, info)
          IN  /\ MainShown(ss)
              /\ ss.extracted_text # ""
              /\ session_state' =
                    IF way = "all"
                    THEN IF ok
                         THEN [ss EXCEPT !.translated_text = combined_translation,
                                         !.translation_completed = TRUE]
                         ELSE ss
                    ELSE IF ok
                         THEN [ss EXCEPT !.page_translations = ss.page_texts,
                                         !.translated_text =
                                             IF ss.page_texts = {} THEN "" ELSE "translation",
                                         !.translation_completed = TRUE]
                         ELSE [ss EXCEPT !.page_translations = {}]
    /\ last_run' = "translate"
    /\ UNCHANGED <<uploaded_file,
                   chunkvars, fixvars, pagevars, classvars, inv, chunksvars, pagesvars, loginvars>>

\* line 246: st.session_state.uploaded_file = None
FileAfterConversion(ss) == ""

\* lines 215-311: "Translate PDF Pages Directly" with some pages selected;
\* the conversion to images can raise (lines 228-243), the translation of
\* the pages always gives an entry per page
TranslateDirect ==
    /\ \E info \in BOOLEAN, pages \in (SUBSET PdfPages) \ {{}}, ok \in BOOLEAN :
          LET ss == NewFileReset(session_state, uploaded_file, info)
          IN  /\ MainShown(ss)
              /\ session_state' =
                    IF ok
                    THEN [ss EXCEPT !.uploaded_file = FileAfterConversion(ss),
                                    !.page_translations = pages,
                                    !.translated_text = "translation",
                                    !.translation_completed = TRUE]
                    ELSE [ss EXCEPT !.translated_text = "", !.page_translations = {}]
    /\ last_run' = "direct"
    /\ UNCHANGED <<uploaded_file,
                   chunkvars, fixvars, pagevars, classvars, inv, chunksvars, pagesvars, loginvars>>

AppNext == Upload \/ Rerun \/ ExtractText \/ TranslateText \/ TranslateDirect

SpecApp == AppInit /\ [][AppNext]_vars

(***************************************************************************)
(* Properties of chunk_text.                                               *)
(***************************************************************************)
Done == pc = "done"

\* the paragraphs that went to chunk k
Group(k) == {i \in 1..Len(owner) : owner[i] = k}
FirstOf(k) == CHOOSE i \in Group(k) : \A j \in Group(k) : i <= j
LastOf(k) == CHOOSE i \in Group(k) : \A j \in Group(k) : j <= i

RECURSIVE JoinRange(_, _, _)
\* paragraphs i..j, each followed by the separator: the accumulator's content
JoinRange(ps, i, j) ==
    IF i > j THEN <<>> ELSE ps[i] \o ParSep \o JoinRange(ps, i + 1, j)

\* sub occurs in s as a contiguous piece
Contains(s, sub) ==
    \E i \in 0..(Len(s) - Len(sub)) : SubSeq(s, i + 1, i + Len(sub)) = sub

\* every paragraph has one owner, owners are 1, 2, ... in paragraph order
OwnersInOrder ==
    /\ Len(owner) = Len(paragraphs)
    /\ owner[1] = 1
    /\ \A i \in 2..Len(owner) : owner[i] \in {owner[i - 1], owner[i - 1] + 1}
    /\ owner[Len(owner)] = Len(chunks)

RECURSIVE NonBlankStripped(_)
\* a paragraph sequence with whitespace normalised: every paragraph trimmed,
\* blank paragraphs left out
NonBlankStripped(ps) ==
    IF ps = <<>> THEN <<>>
    ELSE IF Strip(Head(ps)) = <<>> THEN NonBlankStripped(Tail(ps))
         ELSE <<Strip(Head(ps))>> \o NonBlankStripped(Tail(ps))

RECURSIVE ChunkParagraphs(_)
\* the paragraphs read back from the chunks, in output order
ChunkParagraphs(cs) ==
    IF cs = <<>> THEN <<>>
    ELSE SplitParagraphs(Head(cs)) \o ChunkParagraphs(Tail(cs))

\* C1 as stated: for a positive max_chunk_size every paragraph of the text
\* appears wholly (as it is in the text) inside the one chunk it went to.
\* Stated here only for the paragraphs that have some non-whitespace content,
\* so a violation does not rest on a blank paragraph.
C1_ParagraphWhollyInOneChunk ==
    (Done /\ max_chunk_size > 0) =>
        /\ OwnersInOrder
        /\ \A i \in 1..Len(paragraphs) :
              Strip(paragraphs[i]) # <<>> => Contains(chunks[owner[i]], paragraphs[i])

\* C1 amended: every paragraph goes to exactly one chunk, the chunks take the
\* paragraphs in consecutive runs, and a chunk is its run of whole paragraphs
\* joined by double newlines with only the whitespace at the two ends of the
\* chunk trimmed; so each paragraph appears in its chunk apart from leading or
\* trailing whitespace, and none is divided between two chunks.
C1_ParagraphInOneChunkUpToTrim ==
    (Done /\ max_chunk_size > 0) =>
        /\ OwnersInOrder
        /\ \A k \in 1..Len(chunks) :
              chunks[k] = Strip(JoinRange(paragraphs, FirstOf(k), LastOf(k)))
        /\ \A i \in 1..Len(paragraphs) :
              Contains(chunks[owner[i]], Strip(paragraphs[i]))

\* a run with two chunks, one of them holding two paragraphs, and a paragraph
\* whose edge whitespace was trimmed
C1_Witness ==
    /\ Done /\ max_chunk_size > 0
    /\ Len(chunks) >= 2
    /\ \E k \in 1..Len(chunks) : Cardinality(Group(k)) >= 2
    /\ \E i \in 1..Len(paragraphs) :
          /\ Strip(paragraphs[i]) # <<>>
          /\ ~Contains(chunks[owner[i]], paragraphs[i])

\* C2: the chunks, read back in output order with whitespace normalised, give
\* the original paragraph sequence with whitespace normalised: nothing is
\* dropped, duplicated or reordered.
C2_OrderPreserved ==
    Done => NonBlankStripped(ChunkParagraphs(chunks)) = NonBlankStripped(paragraphs)

C2_Witness ==
    /\ Done /\ max_chunk_size > 0
    /\ Len(chunks) >= 2
    /\ Len(NonBlankStripped(paragraphs)) >= 3
    /\ \E i, j \in 1..Len(paragraphs) :
          /\ Strip(paragraphs[i]) # <<>> /\ Strip(paragraphs[j]) # <<>>
          /\ Strip(paragraphs[i]) # Strip(paragraphs[j])

\* C3 as stated: a paragraph longer than max_chunk_size is alone in its chunk
\* and the chunk contains the whole paragraph. Stated here only for a positive
\* max_chunk_size and the paragraphs that have some non-whitespace content.
C3_OversizeWholeAndAlone ==
    (Done /\ max_chunk_size > 0) =>
        \A i \in 1..Len(paragraphs) :
            (Len(paragraphs[i]) > max_chunk_size /\ Strip(paragraphs[i]) # <<>>) =>
                /\ Group(owner[i]) = {i}
                /\ Contains(chunks[owner[i]], paragraphs[i])

\* C3 amended: a paragraph longer than max_chunk_size, wherever it occurs, is
\* alone in its chunk, and the chunk is that paragraph with its leading and
\* trailing whitespace trimmed: it is never cut at the size limit.
C3_OversizeAloneUpToTrim ==
    Done =>
        \A i \in 1..Len(paragraphs) :
            Len(paragraphs[i]) > max_chunk_size =>
                /\ owner[i] \in 1..Len(chunks)
                /\ Group(owner[i]) = {i}
                /\ chunks[owner[i]] = Strip(paragraphs[i])

\* an oversize paragraph strictly inside the text, between two others
C3_Witness ==
    /\ Done /\ max_chunk_size > 0
    /\ \E i \in 2..(Len(paragraphs) - 1) :
          /\ Len(paragraphs[i]) > max_chunk_size
          /\ Len(chunks[owner[i]]) > max_chunk_size

\* C4: a chunk is within max_chunk_size unless it holds exactly one paragraph
\* and that paragraph is itself longer than max_chunk_size.
C4_ChunkWithinLimit ==
    Done =>
        \A k \in 1..Len(chunks) :
            \/ Len(chunks[k]) <= max_chunk_size
            \/ \E i \in 1..Len(paragraphs) :
                  Group(k) = {i} /\ Len(paragraphs[i]) > max_chunk_size

\* a chunk of two paragraphs that fills the limit exactly, followed or preceded
\* by another chunk
C4_Witness ==
    /\ Done /\ max_chunk_size > 0
    /\ \E k \in 1..Len(chunks) :
          Cardinality(Group(k)) >= 2 /\ Len(chunks[k]) = max_chunk_size
    /\ Len(chunks) >= 2

\* C5 as stated (its consequence): at every boundary between two consecutive
\* chunks, the earlier chunk together with the separator and the first
\* paragraph of the later chunk is longer than max_chunk_size. Stated here in
\* the reading most favourable to the claim: the separator is counted, and only
\* the boundaries between a non-empty chunk and a non-blank paragraph are taken.
C5_BoundaryChunkPlusParagraphExceeds ==
    (Done /\ max_chunk_size > 0) =>
        \A k \in 1..(Len(chunks) - 1) :
            (chunks[k] # <<>> /\ Strip(paragraphs[FirstOf(k + 1)]) # <<>>) =>
                Len(chunks[k]) + Len(ParSep) + Len(paragraphs[FirstOf(k + 1)])
                    > max_chunk_size

\* C5 amended: paragraph 1 opens chunk 1; every later paragraph p opens a new
\* chunk exactly when the untrimmed accumulator (the paragraphs of the current
\* chunk, each followed by a double newline) plus p is longer than
\* max_chunk_size, and is appended otherwise. So at every boundary it is the
\* untrimmed accumulator, not the trimmed chunk, that together with the next
\* paragraph exceeds max_chunk_size.
C5_GreedyOnUntrimmedAccumulator ==
    /\ (pc = "loop" /\ pidx > 1) =>
          current_chunk = JoinRange(paragraphs, FirstOf(owner[pidx - 1]), pidx - 1)
    /\ Done =>
          /\ owner[1] = 1
          /\ \A i \in 2..Len(paragraphs) :
                LET acc == JoinRange(paragraphs, FirstOf(owner[i - 1]), i - 1) IN
                IF Len(acc) + Len(paragraphs[i]) > max_chunk_size
                THEN owner[i] = owner[i - 1] + 1
                ELSE owner[i] = owner[i - 1]

\* a boundary where the accumulator plus the paragraph reaches exactly
\* max_chunk_size + 1, and a paragraph appended where they reach max_chunk_size
C5_Witness ==
    /\ Done /\ max_chunk_size > 0
    /\ \E i \in 2..Len(paragraphs) :
          /\ owner[i] = owner[i - 1] + 1
          /\ Len(JoinRange(paragraphs, FirstOf(owner[i - 1]), i - 1))
                + Len(paragraphs[i]) = max_chunk_size + 1
    /\ \E i \in 2..Len(paragraphs) :
          /\ owner[i] = owner[i - 1]
          /\ Len(JoinRange(paragraphs, FirstOf(owner[i - 1]), i - 1))
                + Len(paragraphs[i]) = max_chunk_size

\* C6 as stated: the empty text gives the empty sequence of chunks.
C6_EmptyTextGivesNoChunks ==
    (Done /\ text = <<>> /\ max_chunk_size > 0) => chunks = <<>>

\* C7 as stated (its first half): a call with a non-positive max_chunk_size
\* does not return chunks.
C7_NonPositiveSizeFails ==
    Done => max_chunk_size > 0

\* C7 amended: chunk_text has no failure at all: for every integer
\* max_chunk_size, zero and negative included, and every text it runs to its
\* return; with a non-positive max_chunk_size every paragraph gets a chunk of
\* its own.
C7_AlwaysReturns ==
    /\ pc # "error"
    /\ pc \in {"split", "loop"} => ENABLED ChunkNext
    /\ pc = "loop" => pidx <= Len(paragraphs) + 1
    /\ (Done /\ max_chunk_size <= 0) => Len(chunks) = Len(paragraphs)

\* a call with a non-positive size that returned several chunks
C7_Witness ==
    /\ Done /\ max_chunk_size <= 0
    /\ Len(chunks) >= 2

(***************************************************************************)
(* Properties of fix_arabic_ocr_errors.                                    *)
(***************************************************************************)
\* the eight categories in the order the specification lists them
ClaimedNames ==
    <<"arabic_ligatures", "common_word_patterns", "letter_fixes", "religious_phrases",
      "quranic_symbols", "arabic_numbers", "diacritics", "fix_connected_letters">>

ClaimedCategory(k, t) ==
    CASE k = 1 -> ApplyRules(LiteralRules(arabic_ligatures), t)
      [] k = 2 -> ApplyRules(common_word_patterns, t)
      [] k = 3 -> ApplyRules(LiteralRules(letter_fixes), t)
      [] k = 4 -> ApplyRules(religious_phrases, t)
      [] k = 5 -> ApplyRules(SymbolRules, t)
      [] k = 6 -> Sub(NumberRule, t)
      [] k = 7 -> ApplyRules(LiteralRules(diacritics), t)
      [] k = 8 -> ApplyRules(connected_patterns, t)

\* C8: the corrector starts from the raw text; every step applies the next
\* category of the fixed order 1..8 (ligatures, common words, letter fixes,
\* religious phrases, symbols, digits, diacritics, connected letters), whole,
\* to the text the previous category left; and the text is handed on only
\* after the eighth.
C8_CategoriesInFixedOrder ==
    /\ (stage = 0 /\ applied = <<>> /\ ftext = raw)
    /\ [][/\ stage' # stage =>
                /\ stage' = stage + 1
                /\ stage' <= 8
                /\ applied' = Append(applied, ClaimedNames[stage'])
                /\ ftext' = ClaimedCategory(stage', ftext)
                /\ raw' = raw
          /\ (pc = "idle" /\ pc' # "idle") => (stage = 8 /\ text' = ftext)
         ]_vars

\* a finished run on an input for which the order of categories 1 and 2
\* matters, and on which both changed the text
C8_Witness ==
    /\ stage = 8
    /\ applied = ClaimedNames
    /\ ClaimedCategory(2, ClaimedCategory(1, raw)) # ClaimedCategory(1, ClaimedCategory(2, raw))
    /\ ClaimedCategory(1, raw) # raw
    /\ ClaimedCategory(2, ClaimedCategory(1, raw)) # ClaimedCategory(1, raw)
    /\ ftext # raw

\* C9 as stated: for "ﻻ" followed by the elongated "اﻟﻟ" the output holds the
\* expanded ligature and the contracted prefix: it contains "لا", and "ال" is
\* not followed by a second lam.
C9_LigatureThenContraction ==
    (stage = 8 /\ raw = LamAlefThenElongatedAl) =>
        /\ Contains(ftext, <<Lam, Alef>>)
        /\ Contains(ftext, <<Alef, Lam>>)
        /\ ~Contains(ftext, <<Alef, Lam, Lam>>)

\* "ال world\n\nالله is great"
EndToEndExpected ==
    <<Alef, Lam, SP, 119, 111, 114, 108, 100, NL, NL,
      Alef, Lam, Lam, 1607, SP, 105, 115, SP, 103, 114, 101, 97, 116>>

\* C10 as stated: correcting "اﻟﻟ world\n\nﷲ is great" and chunking the result
\* at 4000 gives the single chunk "ال world\n\nالله is great".
C10_EndToEndExample ==
    (Done /\ raw = EndToEndText /\ max_chunk_size = DefaultMaxChunk) =>
        chunks = <<EndToEndExpected>>

(***************************************************************************)
(* Properties of the single rule categories and of repeated correction.    *)
(***************************************************************************)
Returned == stage = 8 /\ ~raised

\* the characters of the category-5 table
LiturgicalSymbols == {quranic_symbols[i][1][1] : i \in 1..Len(quranic_symbols)}
\* the characters category 6 replaces: U+0660..U+0669, U+066A, U+066B, U+066C
ArabicNumberChars == 1632..1644

HasNone(t, S) == \A i \in 1..Len(t) : t[i] \notin S
Count(t, S) == Cardinality({i \in 1..Len(t) : t[i] \in S})

WithoutTatweel(t) == SelectSeq(t, LAMBDA c : c # Tatweel)

\* C12: the returned text holds no tatweel, and the last category turns the
\* text into the same text with every tatweel deleted (the neighbours of a
\* run become adjacent, nothing else changes).
C12_NoTatweelInOutput ==
    /\ [](Returned => HasNone(ftext, {Tatweel}))
    /\ [][(stage = 7 /\ stage' = 8) => ftext' = WithoutTatweel(ftext)]_vars

\* "کـــتاب" has come out as "کتاب"
C12_Witness ==
    /\ calls = 1 /\ Returned
    /\ raw = TatweelExample
    /\ ftext = <<1705, 1578, Alef, 1576>>

RECURSIVE Spaced(_)
\* every liturgical symbol between two added spaces
Spaced(t) ==
    IF t = <<>> THEN <<>>
    ELSE (IF Head(t) \in LiturgicalSymbols THEN <<SP, Head(t), SP>> ELSE <<Head(t)>>)
         \o Spaced(Tail(t))

\* C15: category 5 puts one space before and one after every occurrence of a
\* liturgical symbol and changes nothing else; the returned text holds as
\* many symbols as the argument, each between two spaces.
C15_SymbolsSpaced ==
    /\ [][(stage = 4 /\ stage' = 5) => ftext' = Spaced(ftext)]_vars
    /\ [](Returned =>
            /\ Count(ftext, LiturgicalSymbols) = Count(raw, LiturgicalSymbols)
            /\ \A i \in 1..Len(ftext) :
                  ftext[i] \in LiturgicalSymbols =>
                      /\ 1 < i /\ i < Len(ftext)
                      /\ ftext[i - 1] = SP /\ ftext[i + 1] = SP)

\* "a۝a" has come out as "a ۝ a"
C15_Witness ==
    /\ calls = 1 /\ Returned
    /\ raw = <<97, 1757, 97>>
    /\ ftext = <<97, SP, 1757, SP, 97>>

\* the Western equivalent of a character of category 6
Western(c) ==
    IF c \in 1632..1641 THEN c - 1632 + 48
    ELSE IF c = 1642 THEN 37
    ELSE IF c = 1643 THEN 46
    ELSE IF c = 1644 THEN 44
    ELSE c

C17_DiacriticsIdentity ==
    [][(stage = 6 /\ stage' = 7) => ftext' = ftext]_vars

\* category 7 has run on a text that holds a fatha
C17_Witness ==
    /\ stage = 7
    /\ applied[7] = "diacritics"
    /\ Contains(ftext, <<Lam, 1614>>)

(***************************************************************************)
(* Properties of the candidate selection and of the classifier.            *)
(***************************************************************************)
\* the score of candidate i: classifier-positive characters of its correction
CandScore(i) == SpecialCount(CorrectedText(extracted_texts[i]))
\* the earliest candidate among those of the greatest score
BestCand ==
    CHOOSE i \in 1..Len(extracted_texts) :
        /\ \A j \in 1..Len(extracted_texts) : CandScore(j) <= CandScore(i)
        /\ \A j \in 1..(i - 1) : CandScore(j) < CandScore(i)

\* the candidate the returned text comes from
ChosenCand == IF selected = <<>> THEN 1 ELSE selected[Len(selected)]

\* C13: when the page has candidates, the candidate chosen is the earliest of
\* those whose corrected text has the greatest classifier-positive count
\* (the first one when every count is zero), the text kept for it is its
\* correction, and the returned text comes from that one candidate.
C13_BestCandidateSelected ==
    (ppc = "done" /\ extracted_texts # <<>>) =>
        /\ ChosenCand = BestCand
        /\ CandScore(BestCand) > 0 =>
              /\ final_text = CorrectedText(extracted_texts[BestCand])
              /\ page_text = final_text
        /\ CandScore(BestCand) = 0 =>
              /\ selected = <<>>
              /\ page_text \in {extracted_texts[1], CorrectedText(extracted_texts[1])}

\* three candidates, the first scoring less than the second, the second and
\* the third (different texts) sharing the greatest score: the second is kept
C13_Witness ==
    /\ ppc = "done"
    /\ Len(extracted_texts) = 3
    /\ extracted_texts[2] # extracted_texts[3]
    /\ CandScore(1) < CandScore(2)
    /\ CandScore(2) = CandScore(3)
    /\ ChosenCand = 2
    /\ page_text = CorrectedText(extracted_texts[2])

\* the ranges the specification lists
ClaimedRanges ==
    (1536..1791) \cup (1872..1919) \cup (2160..2303) \cup (64336..65023)
        \cup (65136..65279) \cup (69216..69247) \cup (126464..126719)

\* C18: the classifier answers true for a character exactly when its code
\* point is in Arabic 0600-06FF, Supplement 0750-077F, Extended 0870-08FF,
\* Presentation Forms-A FB50-FDFF, Forms-B FE70-FEFF, Rumi 10E60-10E7F or
\* mathematical symbols 1EE00-1EEFF, and false otherwise.
C18_TrueExactlyInRanges ==
    (verdict # "pending" /\ char # NoneArg /\ Len(char) = 1) =>
        /\ char[1] \in ClaimedRanges => verdict = "True"
        /\ char[1] \notin ClaimedRanges => verdict = "False"

\* U+0870, the first code point of a range, was classified true
C18_Witness ==
    /\ char = <<2160>>
    /\ verdict = "True"

\* C19: the classifier answers true or false for every code point and for
\* the empty and the null argument, without raising; empty and null give
\* false.
C19_ClassifierTotal ==
    verdict # "pending" =>
        /\ verdict \in {"True", "False"}
        /\ (char = <<>> \/ char = NoneArg) => verdict = "False"

\* None was classified false
C19_Witness ==
    /\ char = NoneArg
    /\ verdict = "False"

(***************************************************************************)
(* Properties of concurrent calls.                                         *)
(***************************************************************************)
\* what the call returns when nothing else runs
Alone(call) ==
    CASE call.kind = "fix" -> FixAll(call.arg)
      [] call.kind = "chunk" -> ChunkAll(call.arg, call.size)
      [] call.kind = "classify" -> is_special_arabic_char(call.arg)

\* the same, tabulated for the calls made, as pairs <<call, value>>
AlonePairs == {<<c, Alone(c)>> : c \in ConcurrentCalls}
AloneValue(call) == (CHOOSE p \in AlonePairs : p[1] = call)[2]

\* C20: however the steps of the calls in progress interleave, a call that
\* has returned has returned the value it returns when run alone.
C20_InterleavingKeepsResults ==
    \A i \in DOMAIN inv.ctl :
        Ctl(i).pc = "done" => Ctl(i).result = AloneValue(Ctl(i).call)

\* two calls of the corrector on different texts were both in the middle of
\* their categories at the same time, and both have returned
C20_Witness ==
    /\ DOMAIN inv.ctl = {1, 2}
    /\ Ctl(1).call.kind = "fix" /\ Ctl(2).call.kind = "fix"
    /\ Ctl(1).call.arg # Ctl(2).call.arg
    /\ Ctl(1).pc = "done" /\ Ctl(2).pc = "done"
    /\ Ctl(1).result # Ctl(2).result

(***************************************************************************)
(* Further properties of extract_text_from_pdf_page and of chunk_text.     *)
(***************************************************************************)
\* C21 as stated: the text returned for a page that has candidates is the
\* correction of the candidate it was taken from, also when every candidate
\* scores zero and the first candidate is taken.
C21_ReturnsCorrectedText ==
    (ppc = "done" /\ extracted_texts # <<>>) =>
        page_text = CorrectedText(extracted_texts[ChosenCand])

\* C22 as stated: for a positive max_chunk_size no chunk of the returned
\* list is empty, and every chunk holds some non-whitespace content.
C22_NoEmptyChunk ==
    (Done /\ max_chunk_size > 0) =>
        \A k \in 1..Len(chunks) : chunks[k] # <<>> /\ Strip(chunks[k]) # <<>>

RECURSIVE ReadsOf(_)
\* the texts of the passes that gave one, in pass order
ReadsOf(log) ==
    IF log = <<>> THEN <<>>
    ELSE (IF Head(log)[1] = "read" THEN <<Head(log)[2]>> ELSE <<>>) \o ReadsOf(Tail(log))

\* C26: a failing pass never ends the function: after any pass the function
\* is still running, the candidates are the texts of the passes that gave
\* one, in pass order; all the passes have run when the selection starts;
\* and when every pass failed the function returns the empty text.
C26_FailingPassesTolerated ==
    /\ ppc \in {"ocr", "select", "done"} => extracted_texts = ReadsOf(ocr_log)
    /\ ocr_log # <<>> => ppc \in {"ocr", "select", "done"}
    /\ ppc \in {"select", "done"} => Len(ocr_log) = NumConfigs
    /\ (ppc = "done" /\ extracted_texts = <<>>) => page_text = <<>>

\* the first and the third pass failed and the page has the text of the second
C26_Witness ==
    /\ ppc = "done"
    /\ Len(ocr_log) = 3
    /\ ocr_log[1][1] = "raise" /\ ocr_log[2][1] = "read" /\ ocr_log[3][1] = "raise"
    /\ extracted_texts = <<ocr_log[2][2]>>
    /\ extracted_texts[1] # <<>>

(***************************************************************************)
(* Properties of the translation functions.                                *)
(***************************************************************************)
\* C23: translate_text is called once per chunk in input order, each result
\* is appended at the position of its chunk, the list returned is as long as
\* the input, and the callback is called once after each chunk with
\* (i + 1, total): 1, 2, ... up to total.
C23_ChunksTranslatedInOrder ==
    /\ Len(tc_calls) <= Len(tchunks)
    /\ Len(translated_chunks) = Len(tc_calls)
    /\ \A k \in 1..Len(tc_calls) :
          /\ tc_calls[k][1] = tchunks[k]
          /\ translated_chunks[k] = tc_calls[k][2]
    /\ Len(tc_calls) = (IF tc_pc = "callback" THEN tci + 1 ELSE tci)
    /\ tc_callback => tc_progress = [k \in 1..tci |-> <<k, Len(tchunks)>>]
    /\ tc_pc = "done" =>
          /\ Len(translated_chunks) = Len(tchunks)
          /\ tc_callback => /\ Len(tc_progress) = Len(tchunks)
                             /\ tchunks # <<>> =>
                                   tc_progress[Len(tchunks)] = <<Len(tchunks), Len(tchunks)>>

\* "a", a blank chunk and "b" gave "A", "" and None, and the callback was
\* called with (1, 3), (2, 3), (3, 3)
C23_Witness ==
    /\ tc_pc = "done"
    /\ tc_callback
    /\ tchunks = <<<<97>>, <<SP>>, <<98>>>>
    /\ translated_chunks = <<<<65>>, <<>>, NoneArg>>
    /\ tc_progress = <<<<1, 3>>, <<2, 3>>, <<3, 3>>>>

\* no attempt of the log gave a text
NoTextIn(log) == \A k \in 1..Len(log) : log[k][1] # "text"
\* the image of the call in progress has been handled: the call returned or raised
ImageCallEnded == tp_pc = "image" /\ ti_pc \in {"returned", "raised"}

\* C24 as stated: translate_image always returns a non-empty string.
C24_AlwaysReturns ==
    ImageCallEnded => (ti_pc = "returned" /\ image_result # <<>>)

\* C24, amended: once the preprocessing is done, translate_image makes at
\* most three attempts and returns a non-empty string: the text of the first
\* attempt that gave one, and no attempt follows it, or one of the two fixed
\* messages after three attempts without text; the only exception that
\* leaves the function is one raised before the first attempt.
C24_ReturnsOnceAttemptsStart ==
    /\ Len(attempt_log) <= max_retries
    /\ \A k \in 1..(Len(attempt_log) - 1) : attempt_log[k][1] # "text"
    /\ ti_pc = "raised" => attempt_log = <<>>
    /\ (ti_pc = "attempt" /\ attempt_log # <<>>) => NoTextIn(attempt_log)
    /\ (ti_pc = "returned" /\ tp_pc = "image") =>
          /\ image_result # <<>>
          /\ attempt_log # <<>>
          /\ IF NoTextIn(attempt_log)
             THEN /\ Len(attempt_log) = max_retries
                  /\ image_result \in {NoReadableMessage, FailedMessage}
             ELSE attempt_log[Len(attempt_log)] = <<"text", image_result>>

\* the service raised, gave a blank reply, then raised again: the message
\* of line 179 is returned after the third attempt
C24_Witness ==
    /\ tp_pc = "image"
    /\ ti_pc = "returned"
    /\ attempt_log = <<<<"error", <<>>>>, <<"empty", <<>>>>, <<"error", <<>>>>>>
    /\ image_result = NoReadableMessage

C27_RegistrationDurable ==
    \A r \in registered : check_credentials(r[1], r[2])

(***************************************************************************)
(* Properties of the app session.                                          *)
(***************************************************************************)
\* line 412: a completed translation is in the session state
Completed(ss) == ss.translation_completed /\ ss.translated_text # ""

\* C28 as stated: a run of the script with no button pressed in which the
\* uploader still holds the same file leaves a completed translation
\* (translated_text, translation_completed, page_translations) as it was.
C28_RerunKeepsTranslation ==
    [][(last_run' = "rerun" /\ uploaded_file' = uploaded_file /\ Completed(session_state)) =>
           /\ session_state'.translated_text = session_state.translated_text
           /\ session_state'.translation_completed
           /\ session_state'.page_translations = session_state.page_translations]_vars

====
